---- MODULE Spec2Model ----
(***************************************************************************)
(* Model of the SteerMate backend's trip report path:                      *)
(*   routers/trips.py   upload_trip, get_trip_report                       *)
(*   ml/driver_scoring.py   get_scorer, score_trip_data,                   *)
(*                          DriverScorer.score_trip and                    *)
(*                          DriverScorer._generate_recommendations         *)
(*                                                                         *)
(* Python floats are modelled as exact rationals <<num, den>> in lowest    *)
(* terms with den > 0.  None / a missing dict key is the empty tuple <<>>  *)
(* and a present value v is <<v>>.  A Python str that the code inspects    *)
(* (sign_class) is a tuple of one-character strings.                       *)
(***************************************************************************)
EXTENDS Integers, Sequences, FiniteSets, TLC

VARIABLES trip, scorer, report, calls, locals

vars == <<trip, scorer, report, calls, locals>>

----------------------------------------------------------------------------
(* Optional values: None or a missing key is <<>>, a present value is <<v>> *)

None == <<>>

Some(v) == <<v>>

\* dict.get(key, default): the default only when the key is missing
Get(opt, default) == IF opt = None THEN default ELSE opt[1]

\* Python's "x or 0" on a nullable number: None and 0 both give 0
OrZero(opt) == IF opt = None THEN 0 ELSE opt[1]

----------------------------------------------------------------------------
(* Exact rational arithmetic standing for Python float arithmetic            *)

Abs(n) == IF n < 0 THEN -n ELSE n

RECURSIVE GCD(_, _)
GCD(a, b) == IF b = 0 THEN a ELSE GCD(b, a % b)

Rat(n, d) ==
    LET g == GCD(Abs(n), Abs(d))
        s == IF d < 0 THEN -1 ELSE 1
    IN  <<(s * n) \div g, (s * d) \div g>>

FromInt(n) == <<n, 1>>

RNeg(x) == <<-x[1], x[2]>>

RAdd(x, y) ==
    LET g == GCD(x[2], y[2])
        l == (x[2] \div g) * y[2]
    IN  Rat(x[1] * (l \div x[2]) + y[1] * (l \div y[2]), l)

RSub(x, y) == RAdd(x, RNeg(y))

RMul(x, y) ==
    LET g1 == GCD(Abs(x[1]), y[2])
        g2 == GCD(Abs(y[1]), x[2])
    IN  Rat((x[1] \div g1) * (y[1] \div g2), (x[2] \div g2) * (y[2] \div g1))

\* x / y for y > 0
RDiv(x, y) == RMul(x, <<y[2], y[1]>>)

RLess(x, y) == RSub(x, y)[1] < 0

RLeq(x, y) == RSub(x, y)[1] <= 0

\* Python's max(a, b) and min(a, b) on numbers
RMax(x, y) == IF RLess(x, y) THEN y ELSE x

RMin(x, y) == IF RLess(y, x) THEN y ELSE x

\* int(x) without round(): the fraction is dropped
PyRoundTruncate(x) ==
    LET a == Abs(x[1])
        q == a \div x[2]
    IN  IF x[1] < 0 THEN -q ELSE q

\* Python's round(x): nearest integer, ties to the even neighbour
PyRound(x) ==
    LET a == Abs(x[1])
        q == a \div x[2]
        r == a % x[2]
        m == IF 2 * r < x[2] THEN q
             ELSE IF 2 * r > x[2] THEN q + 1
             ELSE IF q % 2 = 0 THEN q ELSE q + 1
    IN  IF x[1] < 0 THEN -m ELSE m

\* round(x) in place of round(x, 1): no decimal place kept
PyRound1Whole(x) == FromInt(PyRound(x))

\* Python's round(x, 1): one decimal place, ties to even
PyRound1(x) == Rat(PyRound(RMul(x, FromInt(10))), 10)

----------------------------------------------------------------------------
(* Python str helpers for sign_class (a tuple of one-character strings)      *)

Chars_speed_limit_ == <<"s","p","e","e","d","_","l","i","m","i","t","_">>

Digits == {"0","1","2","3","4","5","6","7","8","9"}

DigitValue(c) ==
    CASE c = "0" -> 0 [] c = "1" -> 1 [] c = "2" -> 2 [] c = "3" -> 3
      [] c = "4" -> 4 [] c = "5" -> 5 [] c = "6" -> 6 [] c = "7" -> 7
      [] c = "8" -> 8 [] c = "9" -> 9

\* needle in s
Contains(needle, s) ==
    \E i \in 1..(Len(s) - Len(needle) + 1) :
        SubSeq(s, i, i + Len(needle) - 1) = needle

\* s.split("_")[-1]: what follows the last "_", the whole string without one
LastToken(s) ==
    LET us == {i \in 1..Len(s) : s[i] = "_"}
        last == IF us = {} THEN 0 ELSE CHOOSE i \in us : \A j \in us : j <= i
    IN  SubSeq(s, last + 1, Len(s))

RECURSIVE DecimalValue(_)
DecimalValue(ds) ==
    IF ds = <<>> THEN 0
    ELSE 10 * DecimalValue(SubSeq(ds, 1, Len(ds) - 1)) + DigitValue(ds[Len(ds)])

\* int(tok): Some(value) for an optionally signed run of digits, None where
\* Python raises ValueError
IntParse(tok) ==
    LET signed == tok # <<>> /\ tok[1] \in {"+", "-"}
        ds == IF signed THEN Tail(tok) ELSE tok
    IN  IF ds # <<>> /\ \A i \in 1..Len(ds) : ds[i] \in Digits
        THEN Some(IF signed /\ tok[1] = "-" THEN -DecimalValue(ds) ELSE DecimalValue(ds))
        ELSE None

----------------------------------------------------------------------------
(* DriverScorer configuration tables                                        *)

\* the table read without a default: an unlisted type costs nothing
EVENT_PENALTIES_no_default(event_type) ==
    CASE event_type = "hard_brake" -> Rat(3, 1)
      [] event_type = "harsh_accel" -> Rat(2, 1)
      [] event_type = "overspeed" -> Rat(4, 1)
      [] event_type = "unsafe_curve" -> Rat(7, 2)
      [] OTHER -> Rat(0, 1)

\* EVENT_PENALTIES.get(event_type, 2.0)
EVENT_PENALTIES(event_type) ==
    CASE event_type = "hard_brake" -> Rat(3, 1)
      [] event_type = "harsh_accel" -> Rat(2, 1)
      [] event_type = "overspeed" -> Rat(4, 1)
      [] event_type = "unsafe_curve" -> Rat(7, 2)
      [] OTHER -> Rat(2, 1)

OVERSPEED_PENALTY_PER_KMH == Rat(1, 2)

\* dict items in insertion order
RISK_THRESHOLDS == << <<"low", 80>>, <<"medium", 60>>, <<"high", 0>> >>

GRADE_THRESHOLDS == << <<"A", 90>>, <<"B", 80>>, <<"C", 70>>, <<"D", 60>>, <<"F", 0>> >>

BASE_SCORE == 100

EVENTS_CAP == 40

OVERSPEED_CAP == 20

DEFAULT_LIMIT_KMH == 50

SIGN_BONUS == 5

MAX_RECOMMENDATIONS == 3

\* sorted(items, key=lambda x: x[1], reverse=True): stable, descending by value
RECURSIVE InsertDesc(_, _)
InsertDesc(sorted, item) ==
    IF sorted = <<>> THEN <<item>>
    ELSE IF Head(sorted)[2] >= item[2]
         THEN <<Head(sorted)>> \o InsertDesc(Tail(sorted), item)
         ELSE <<item>> \o sorted

RECURSIVE SortedDesc(_)
SortedDesc(items) ==
    IF items = <<>> THEN <<>>
    ELSE InsertDesc(SortedDesc(SubSeq(items, 1, Len(items) - 1)), items[Len(items)])

----------------------------------------------------------------------------
(* DriverScorer.score_trip                                                  *)

\* the floor taken in metres instead of kilometres
DistanceKmFloorOneMetre(trip_data) ==
    RMax(Rat(OrZero(trip_data.distance_m), 1000), Rat(1, 1000))

\* distance_km = max((trip_data.get("distance_m") or 0) / 1000, 1.0)
DistanceKm(trip_data) ==
    RMax(Rat(OrZero(trip_data.distance_m), 1000), FromInt(1))

\* duration_min = max((trip_data.get("duration_seconds") or 0) / 60, 1.0)
DurationMin(trip_data) ==
    RMax(Rat(OrZero(trip_data.duration_seconds), 60), FromInt(1))

\* event_counts is a dict: a sequence of <<key, count>> in insertion order
CountsGet(event_counts, key, default) ==
    IF \E i \in 1..Len(event_counts) : event_counts[i][1] = key
    THEN event_counts[CHOOSE i \in 1..Len(event_counts) : event_counts[i][1] = key][2]
    ELSE default

CountsSet(event_counts, key, value) ==
    IF \E i \in 1..Len(event_counts) : event_counts[i][1] = key
    THEN [i \in 1..Len(event_counts) |->
            IF event_counts[i][1] = key THEN <<key, value>> ELSE event_counts[i]]
    ELSE Append(event_counts, <<key, value>>)

\* overspeed_amount = max(0, speed_ms * 3.6 - 50) of one overspeed event
OverspeedAmount(event) ==
    LET speed_ms == OrZero(event.speed_m_s)
        speed_kmh == RMul(FromInt(speed_ms), Rat(36, 10))
    IN  RMax(FromInt(0), RSub(speed_kmh, FromInt(DEFAULT_LIMIT_KMH)))

\* the pass keeping the excess of the latest overspeed event, not the largest
CountEventLatestSpeed(counted, event) ==
    LET event_type == Get(event.event_type, "unknown")
    IN  [event_counts |->
            CountsSet(counted.event_counts, event_type,
                      CountsGet(counted.event_counts, event_type, 0) + 1),
         max_overspeed_kmh |->
            IF event_type = "overspeed"
            THEN OverspeedAmount(event)
            ELSE counted.max_overspeed_kmh]

\* one pass of the loop body "for event in events" over the locals
CountEvent(counted, event) ==
    LET event_type == Get(event.event_type, "unknown")
    IN  [event_counts |->
            CountsSet(counted.event_counts, event_type,
                      CountsGet(counted.event_counts, event_type, 0) + 1),
         max_overspeed_kmh |->
            IF event_type = "overspeed"
            THEN RMax(counted.max_overspeed_kmh, OverspeedAmount(event))
            ELSE counted.max_overspeed_kmh]

\* event_counts = {} and max_overspeed_kmh = 0.0 before the loop
NoEventsCounted == [event_counts |-> <<>>, max_overspeed_kmh |-> FromInt(0)]

\* the loop tracking the speed of every event, whatever its type
RECURSIVE AggregateEventsAnyType(_)
AggregateEventsAnyType(events) ==
    IF events = <<>>
    THEN [event_counts |-> <<>>, max_overspeed_kmh |-> FromInt(0)]
    ELSE LET acc == AggregateEventsAnyType(SubSeq(events, 1, Len(events) - 1))
             event == events[Len(events)]
             event_type == Get(event.event_type, "unknown")
         IN  [event_counts |->
                 CountsSet(acc.event_counts, event_type,
                           CountsGet(acc.event_counts, event_type, 0) + 1),
              max_overspeed_kmh |-> RMax(acc.max_overspeed_kmh, OverspeedAmount(event))]

\* the loop "for event in events": event_counts and max_overspeed_kmh
RECURSIVE AggregateEvents(_)
AggregateEvents(events) ==
    IF events = <<>>
    THEN NoEventsCounted
    ELSE CountEvent(AggregateEvents(SubSeq(events, 1, Len(events) - 1)),
                    events[Len(events)])

\* deduction = (count / distance_km) * 100 * penalty of one event type
Deduction(event_type, count, distance_km) ==
    LET normalized_count == RMul(RDiv(FromInt(count), distance_km), FromInt(100))
    IN  RMul(normalized_count, EVENT_PENALTIES(event_type))

\* the issue a counted event type adds, if any
CountIssue(event_type, count) ==
    IF count > 0
    THEN CASE event_type = "hard_brake" -> << <<"Hard braking: {count} times", count>> >>
           [] event_type = "harsh_accel" -> << <<"Harsh acceleration: {count} times", count>> >>
           [] event_type = "overspeed" -> << <<"Over speed limit: {count} times", count>> >>
           [] event_type = "unsafe_curve" -> << <<"Unsafe cornering: {count} times", count>> >>
           [] OTHER -> <<>>
    ELSE <<>>

\* the loop "for event_type, count in event_counts.items()"
RECURSIVE DeductEvents(_, _)
DeductEvents(event_counts, distance_km) ==
    IF event_counts = <<>>
    THEN [event_deduction |-> FromInt(0), issues |-> <<>>]
    ELSE LET acc == DeductEvents(SubSeq(event_counts, 1, Len(event_counts) - 1), distance_km)
             item == event_counts[Len(event_counts)]
         IN  [event_deduction |->
                 RAdd(acc.event_deduction, Deduction(item[1], item[2], distance_km)),
              issues |-> acc.issues \o CountIssue(item[1], item[2])]

\* the events deduction without its cap
EventsContributionUncapped(event_deduction) == RNeg(event_deduction)

\* the events deduction with the minus sign lost
EventsContributionPositive(event_deduction) ==
    RMin(event_deduction, FromInt(EVENTS_CAP))

\* breakdown["events"] = -min(event_deduction, 40)
EventsContribution(event_deduction) ==
    RNeg(RMin(event_deduction, FromInt(EVENTS_CAP)))

\* the overspeed deduction without its cap
OverspeedContributionUncapped(max_overspeed_kmh) ==
    RNeg(RMul(max_overspeed_kmh, OVERSPEED_PENALTY_PER_KMH))

\* breakdown["overspeed"] = -min(max_overspeed_kmh * 0.5, 20)
OverspeedContribution(max_overspeed_kmh) ==
    LET overspeed_deduction == RMul(max_overspeed_kmh, OVERSPEED_PENALTY_PER_KMH)
    IN  RNeg(RMin(overspeed_deduction, FromInt(OVERSPEED_CAP)))

\* the issue appended only above 20 km/h
MaxSpeedIssueAboveTwenty(max_overspeed_kmh) ==
    IF RLess(FromInt(20), max_overspeed_kmh)
    THEN << <<"Max speed exceeded limit by {max_overspeed_kmh:.0f} km/h",
              PyRound(max_overspeed_kmh)>> >>
    ELSE <<>>

\* the issue appended when max_overspeed_kmh > 10 (":.0f" rounds to an integer)
MaxSpeedIssue(max_overspeed_kmh) ==
    IF RLess(FromInt(10), max_overspeed_kmh)
    THEN << <<"Max speed exceeded limit by {max_overspeed_kmh:.0f} km/h",
              PyRound(max_overspeed_kmh)>> >>
    ELSE <<>>

\* int(...) outside any try block
CatchesNothing == FALSE

\* "except ValueError: pass" around int(...)
CatchesValueError == TRUE

\* the loop counting only the detections with a confidence of at least 50
RECURSIVE DetectLimitsConfident(_)
DetectLimitsConfident(sign_detections) ==
    IF sign_detections = <<>>
    THEN [raised |-> None, detected_limits |-> <<>>]
    ELSE LET acc == DetectLimitsConfident(SubSeq(sign_detections, 1, Len(sign_detections) - 1))
             detection == sign_detections[Len(sign_detections)]
             sign_class == Get(detection.sign_class, <<>>)
             confidence == Get(detection.confidence, 0)
             limit == IntParse(LastToken(sign_class))
         IN  IF Contains(Chars_speed_limit_, sign_class) /\ limit # None /\ confidence >= 50
             THEN [acc EXCEPT !.detected_limits = Append(@, limit[1])]
             ELSE acc

\* the loop "for detection in sign_detections": detected_limits, or the
\* exception that leaves the loop
RECURSIVE DetectLimits(_)
DetectLimits(sign_detections) ==
    IF sign_detections = <<>>
    THEN [raised |-> None, detected_limits |-> <<>>]
    ELSE LET acc == DetectLimits(SubSeq(sign_detections, 1, Len(sign_detections) - 1))
             detection == sign_detections[Len(sign_detections)]
             sign_class == Get(detection.sign_class, <<>>)
             confidence == Get(detection.confidence, 0)
             limit == IntParse(LastToken(sign_class))
         IN  IF acc.raised # None THEN acc
             ELSE IF Contains(Chars_speed_limit_, sign_class)
             THEN IF limit # None
                  THEN [acc EXCEPT !.detected_limits = Append(@, limit[1])]
                  ELSE IF CatchesValueError THEN acc
                  ELSE [acc EXCEPT !.raised = Some("ValueError")]
             ELSE acc

\* a bonus for every detected limit
SignComplianceBonusCumulative(detected_limits) ==
    FromInt(SIGN_BONUS * Len(detected_limits))

\* sign_compliance_bonus: 5.0 when detected_limits is non-empty
SignComplianceBonus(detected_limits) ==
    IF detected_limits # <<>> THEN FromInt(SIGN_BONUS) ELSE FromInt(0)

\* the sum without the clamp
FinalScoreUnclamped(breakdown) ==
    RAdd(RAdd(RAdd(FromInt(BASE_SCORE), breakdown.events),
              breakdown.overspeed), breakdown.sign_compliance)

\* final_score = max(0, min(100, base_score + events + overspeed + sign_compliance))
FinalScore(breakdown) ==
    LET final_score == RAdd(RAdd(RAdd(FromInt(BASE_SCORE), breakdown.events),
                                 breakdown.overspeed), breakdown.sign_compliance)
    IN  RMax(FromInt(0), RMin(FromInt(100), final_score))

\* thresholds compared with > instead of >=
RECURSIVE FirstAtLeastStrict(_, _, _)
FirstAtLeastStrict(table, final_score, default) ==
    IF table = <<>> THEN default
    ELSE IF RLess(FromInt(Head(table)[2]), final_score) THEN Head(table)[1]
    ELSE FirstAtLeastStrict(Tail(table), final_score, default)

\* the first level of the table, highest threshold first, with
\* final_score >= threshold; default when none matches
RECURSIVE FirstAtLeast(_, _, _)
FirstAtLeast(table, final_score, default) ==
    IF table = <<>> THEN default
    ELSE IF RLeq(FromInt(Head(table)[2]), final_score) THEN Head(table)[1]
    ELSE FirstAtLeast(Tail(table), final_score, default)

RiskLevel(final_score) == FirstAtLeast(SortedDesc(RISK_THRESHOLDS), final_score, "high")

\* the grade table walked lowest threshold first
GradeAscending(final_score) ==
    LET desc == SortedDesc(GRADE_THRESHOLDS)
    IN FirstAtLeast([i \in 1..Len(desc) |-> desc[Len(desc) + 1 - i]], final_score, "F")

Grade(final_score) == FirstAtLeast(SortedDesc(GRADE_THRESHOLDS), final_score, "F")

----------------------------------------------------------------------------
(* DriverScorer._generate_recommendations                                   *)

MSG_FOLLOWING_DISTANCE ==
    "Maintain a larger following distance to avoid hard braking. Try to anticipate stops 3-4 seconds ahead."

MSG_ANTICIPATE ==
    "Look further ahead to anticipate traffic slowdowns and brake more gradually."

MSG_SMOOTH_ACCEL ==
    "Smooth acceleration saves fuel and reduces wear. Try to take 5+ seconds to reach cruising speed."

MSG_DANGEROUS_SPEED ==
    "Significantly exceeding speed limits is dangerous. Use cruise control to maintain safe speeds."

MSG_WATCH_SPEED ==
    "Watch your speed after passing speed limit signs. It takes time to adjust - start slowing early."

MSG_CURVES ==
    "Slow down before entering curves, not during. Reduce speed to a comfortable level before the turn."

MSG_EXCELLENT ==
    "Excellent driving! Keep up the safe habits. Your smooth driving style is both safe and fuel-efficient."

\* rate = (count / distance_km) * 100
Rate(count, distance_km) == RMul(RDiv(FromInt(count), distance_km), FromInt(100))

\* the hard-brake rule with "if rate > 2" in place of "elif rate > 2"
HardBrakeRuleBothMessages(event_counts, distance_km) ==
    LET hard_brakes == CountsGet(event_counts, "hard_brake", 0)
        rate == Rate(hard_brakes, distance_km)
    IN  IF hard_brakes > 0
        THEN (IF RLess(FromInt(5), rate) THEN <<MSG_FOLLOWING_DISTANCE>> ELSE <<>>)
             \o (IF RLess(FromInt(2), rate) THEN <<MSG_ANTICIPATE>> ELSE <<>>)
        ELSE <<>>

\* the hard-brake rule with >= in place of >
HardBrakeRuleInclusive(event_counts, distance_km) ==
    LET hard_brakes == CountsGet(event_counts, "hard_brake", 0)
        rate == Rate(hard_brakes, distance_km)
    IN  IF hard_brakes > 0
        THEN IF RLeq(FromInt(5), rate) THEN <<MSG_FOLLOWING_DISTANCE>>
             ELSE IF RLeq(FromInt(2), rate) THEN <<MSG_ANTICIPATE>>
             ELSE <<>>
        ELSE <<>>

HardBrakeRule(event_counts, distance_km) ==
    LET hard_brakes == CountsGet(event_counts, "hard_brake", 0)
        rate == Rate(hard_brakes, distance_km)
    IN  IF hard_brakes > 0
        THEN IF RLess(FromInt(5), rate) THEN <<MSG_FOLLOWING_DISTANCE>>
             ELSE IF RLess(FromInt(2), rate) THEN <<MSG_ANTICIPATE>>
             ELSE <<>>
        ELSE <<>>

HarshAccelRule(event_counts, distance_km) ==
    LET harsh_accels == CountsGet(event_counts, "harsh_accel", 0)
        rate == Rate(harsh_accels, distance_km)
    IN  IF harsh_accels > 0 /\ RLess(FromInt(3), rate)
        THEN <<MSG_SMOOTH_ACCEL>>
        ELSE <<>>

\* the overspeed rule triggered by the excess alone
OverspeedRuleByExcessOnly(event_counts, max_overspeed_kmh) ==
    IF RLess(FromInt(5), max_overspeed_kmh)
    THEN IF RLess(FromInt(20), max_overspeed_kmh)
         THEN <<MSG_DANGEROUS_SPEED>>
         ELSE <<MSG_WATCH_SPEED>>
    ELSE <<>>

OverspeedRule(event_counts, max_overspeed_kmh) ==
    LET overspeeds == CountsGet(event_counts, "overspeed", 0)
    IN  IF overspeeds > 0 \/ RLess(FromInt(5), max_overspeed_kmh)
        THEN IF RLess(FromInt(20), max_overspeed_kmh)
             THEN <<MSG_DANGEROUS_SPEED>>
             ELSE <<MSG_WATCH_SPEED>>
        ELSE <<>>

UnsafeCurveRule(event_counts) ==
    LET unsafe_curves == CountsGet(event_counts, "unsafe_curve", 0)
    IN  IF unsafe_curves > 0 THEN <<MSG_CURVES>> ELSE <<>>

\* recommendations[:n]
Prefix(seq, n) == SubSeq(seq, 1, IF Len(seq) < n THEN Len(seq) ELSE n)

\* the rules without the "if not recommendations" default
generate_recommendations_no_default(event_counts, max_overspeed_kmh, distance_km) ==
    Prefix(HardBrakeRule(event_counts, distance_km)
           \o HarshAccelRule(event_counts, distance_km)
           \o OverspeedRule(event_counts, max_overspeed_kmh)
           \o UnsafeCurveRule(event_counts), MAX_RECOMMENDATIONS)

\* the last three messages kept instead of the first three
generate_recommendations_last_three(event_counts, max_overspeed_kmh, distance_km) ==
    LET generated == HardBrakeRule(event_counts, distance_km)
                     \o HarshAccelRule(event_counts, distance_km)
                     \o OverspeedRule(event_counts, max_overspeed_kmh)
                     \o UnsafeCurveRule(event_counts)
        recommendations == IF generated = <<>> THEN <<MSG_EXCELLENT>> ELSE generated
        n == Len(recommendations)
    IN  SubSeq(recommendations,
               IF n > MAX_RECOMMENDATIONS THEN n - MAX_RECOMMENDATIONS + 1 ELSE 1, n)

\* the positive message appended whatever the rules produced
generate_recommendations_always_praise(event_counts, max_overspeed_kmh, distance_km) ==
    Prefix(HardBrakeRule(event_counts, distance_km)
           \o HarshAccelRule(event_counts, distance_km)
           \o OverspeedRule(event_counts, max_overspeed_kmh)
           \o UnsafeCurveRule(event_counts)
           \o <<MSG_EXCELLENT>>, MAX_RECOMMENDATIONS)

generate_recommendations(event_counts, max_overspeed_kmh, distance_km) ==
    LET generated == HardBrakeRule(event_counts, distance_km)
                     \o HarshAccelRule(event_counts, distance_km)
                     \o OverspeedRule(event_counts, max_overspeed_kmh)
                     \o UnsafeCurveRule(event_counts)
        recommendations == IF generated = <<>> THEN <<MSG_EXCELLENT>> ELSE generated
    IN  Prefix(recommendations, MAX_RECOMMENDATIONS)

----------------------------------------------------------------------------
(* score_trip: the SafetyScore returned, or the exception raised            *)

\* score_trip from the end of the event loop on
ScoreFromCounts(trip_data, event_counts, max_overspeed_kmh, sign_detections) ==
    LET distance_km == DistanceKm(trip_data)
        duration_min == DurationMin(trip_data)
        ded == DeductEvents(event_counts, distance_km)
        issues == ded.issues \o MaxSpeedIssue(max_overspeed_kmh)
        det == DetectLimits(sign_detections)
        breakdown == [base |-> FromInt(BASE_SCORE),
                      events |-> EventsContribution(ded.event_deduction),
                      overspeed |-> OverspeedContribution(max_overspeed_kmh),
                      sign_compliance |-> SignComplianceBonus(det.detected_limits)]
        final_score == FinalScore(breakdown)
    IN  IF det.raised # None
        THEN [raised |-> det.raised, result |-> None]
        ELSE [raised |-> None,
              result |-> Some(
                [score |-> PyRound(final_score),
                 risk_level |-> RiskLevel(final_score),
                 grade |-> Grade(final_score),
                 issues |-> issues,
                 recommendations |->
                     generate_recommendations(event_counts, max_overspeed_kmh, distance_km),
                 breakdown |-> [k \in DOMAIN breakdown |-> PyRound1(breakdown[k])]])]

score_trip(trip_data, events, sign_detections) ==
    LET agg == AggregateEvents(events)
    IN  ScoreFromCounts(trip_data, agg.event_counts, agg.max_overspeed_kmh,
                        sign_detections)

----------------------------------------------------------------------------
(* get_scorer and score_trip_data                                           *)

\* the singleton: the instance already there, or a new DriverScorer()
get_scorer(current) == IF current = None THEN Some("DriverScorer") ELSE current

score_trip_data(trip_data, events, sign_detections) ==
    score_trip(trip_data, events, sign_detections)

----------------------------------------------------------------------------
(* Natural numbers of any size, for the 53-bit significands of Python       *)
(* floats: limbs below 2^15, least significant first, no leading zero limb  *)

LimbBits == 15

LimbBase == 2^15

RECURSIVE BNorm(_)
BNorm(a) ==
    IF a # <<>> /\ a[Len(a)] = 0 THEN BNorm(SubSeq(a, 1, Len(a) - 1)) ELSE a

RECURSIVE BFromInt(_)
BFromInt(n) ==
    IF n = 0 THEN <<>> ELSE <<n % LimbBase>> \o BFromInt(n \div LimbBase)

\* for values below 2^31
RECURSIVE BToInt(_)
BToInt(a) == IF a = <<>> THEN 0 ELSE a[1] + LimbBase * BToInt(Tail(a))

Limb(a, i) == IF i <= Len(a) THEN a[i] ELSE 0

RECURSIVE BAddFrom(_, _, _, _)
BAddFrom(a, b, i, carry) ==
    IF i > Len(a) /\ i > Len(b)
    THEN IF carry = 0 THEN <<>> ELSE <<carry>>
    ELSE LET t == Limb(a, i) + Limb(b, i) + carry
         IN  <<t % LimbBase>> \o BAddFrom(a, b, i + 1, t \div LimbBase)

BAdd(a, b) == BAddFrom(a, b, 1, 0)

RECURSIVE BSubFrom(_, _, _, _)
BSubFrom(a, b, i, borrow) ==
    IF i > Len(a) THEN <<>>
    ELSE LET t == a[i] - Limb(b, i) - borrow
         IN  <<IF t < 0 THEN t + LimbBase ELSE t>>
             \o BSubFrom(a, b, i + 1, IF t < 0 THEN 1 ELSE 0)

\* a - b for a >= b
BSub(a, b) == BNorm(BSubFrom(a, b, 1, 0))

RECURSIVE BCmpFrom(_, _, _)
BCmpFrom(a, b, i) ==
    IF i = 0 THEN 0
    ELSE IF a[i] < b[i] THEN -1
    ELSE IF a[i] > b[i] THEN 1
    ELSE BCmpFrom(a, b, i - 1)

\* -1, 0 or 1 as a < b, a = b or a > b
BCmp(a, b) ==
    IF Len(a) < Len(b) THEN -1
    ELSE IF Len(a) > Len(b) THEN 1
    ELSE BCmpFrom(a, b, Len(a))

RECURSIVE BMulSmallFrom(_, _, _, _)
BMulSmallFrom(a, k, i, carry) ==
    IF i > Len(a)
    THEN IF carry = 0 THEN <<>> ELSE <<carry>>
    ELSE LET t == a[i] * k + carry
         IN  <<t % LimbBase>> \o BMulSmallFrom(a, k, i + 1, t \div LimbBase)

\* a * k for k below 2^15
BMulSmall(a, k) == IF k = 0 THEN <<>> ELSE BMulSmallFrom(a, k, 1, 0)

RECURSIVE BMul(_, _)
BMul(a, b) ==
    IF a = <<>> \/ b = <<>> THEN <<>>
    ELSE BAdd(BMulSmall(a, b[1]),
              IF Len(b) = 1 THEN <<>> ELSE <<0>> \o BMul(a, Tail(b)))

\* a * 2^k
BShl(a, k) ==
    IF a = <<>> THEN <<>>
    ELSE [i \in 1..(k \div LimbBits) |-> 0] \o BMulSmall(a, 2^(k % LimbBits))

\* floor(a / 2^k)
BShr(a, k) ==
    LET limbs == k \div LimbBits
        p == 2^(k % LimbBits)
        rest == IF limbs >= Len(a) THEN <<>> ELSE SubSeq(a, limbs + 1, Len(a))
    IN  BNorm([i \in 1..Len(rest) |->
                  (rest[i] \div p) + (Limb(rest, i + 1) % p) * (LimbBase \div p)])

RECURSIVE BitLenSmall(_)
BitLenSmall(n) == IF n = 0 THEN 0 ELSE 1 + BitLenSmall(n \div 2)

\* the number of bits of a
BBitLen(a) ==
    IF a = <<>> THEN 0 ELSE LimbBits * (Len(a) - 1) + BitLenSmall(a[Len(a)])

BIsOdd(a) == a # <<>> /\ a[1] % 2 = 1

\* the quotient of the two leading limbs of the dividend by the leading limb
\* of the divisor, at most a full limb: an estimate of the next digit that
\* is never too small
EstimateDigit(cur, b) ==
    LET lead == Limb(cur, Len(b) + 1) * LimbBase + Limb(cur, Len(b))
    IN  IF lead \div b[Len(b)] > LimbBase - 1
        THEN LimbBase - 1
        ELSE lead \div b[Len(b)]

\* long division, limb by limb from the most significant one: the limbs
\* of a above the i-th are done, with the quotient and remainder so far;
\* q is lowered until q * b fits in cur, the remainder with the i-th limb
RECURSIVE BLongDivFrom(_, _, _, _, _), DivideLimb(_, _, _, _, _, _)
DivideLimb(a, b, i, quot, cur, q) ==
    IF BCmp(BMulSmall(b, q), cur) > 0
    THEN DivideLimb(a, b, i, quot, cur, q - 1)
    ELSE BLongDivFrom(a, b, i - 1, <<q>> \o quot, BSub(cur, BMulSmall(b, q)))

BLongDivFrom(a, b, i, quot, rem) ==
    IF i = 0 THEN [quot |-> BNorm(quot), rem |-> rem]
    ELSE DivideLimb(a, b, i, quot, BNorm(<<a[i]>> \o rem),
                    EstimateDigit(BNorm(<<a[i]>> \o rem), b))

\* floor(a / b) and a mod b for the top limb of b at least 2^14: the
\* leading limbs of a, one fewer than b has, are below b
BLongDiv(a, b) ==
    IF Len(a) < Len(b) THEN [quot |-> <<>>, rem |-> a]
    ELSE BLongDivFrom(a, b, Len(a) - Len(b) + 1, <<>>,
                      BNorm(SubSeq(a, Len(a) - Len(b) + 2, Len(a))))

\* the remainder of a division of a * 2^t by b * 2^t, brought back
Unscaled(scaled, t) == [quot |-> scaled.quot, rem |-> BShr(scaled.rem, t)]

\* a and b scaled by 2^t, which makes the top limb of b at least 2^14
DivModScaled(a, b, t) == Unscaled(BLongDiv(BShl(a, t), BShl(b, t)), t)

\* floor(a / b) and a mod b for b > 0
BDivMod(a, b) == DivModScaled(a, b, LimbBits - BitLenSmall(b[Len(b)]))

\* q = floor(a / 2^k) moved to the nearest integer, ties to the even one
RoundHalfEven(a, k, q) ==
    LET c == BCmp(BShl(BSub(a, BShl(q, k)), 1), BShl(<<1>>, k))
    IN  IF c > 0 \/ (c = 0 /\ BIsOdd(q)) THEN BAdd(q, <<1>>) ELSE q

\* (a * 2^e) rounded to an integer, ties to the even neighbour
BRoundShift(a, e) ==
    IF e >= 0 THEN BShl(a, e) ELSE RoundHalfEven(a, -e, BShr(a, -e))

----------------------------------------------------------------------------
(* Python floats (IEEE 754 binary64, round to nearest, ties to even) in the *)
(* normal range: sign, 53-bit significand m and exponent e, value m * 2^e   *)

MantissaBits == 53

FZero == [neg |-> FALSE, m |-> <<>>, e |-> 0]

\* a significand of 53 or 54 bits at exponent e, as a float
Normal(neg, m, e) ==
    IF BBitLen(m) > MantissaBits
    THEN [neg |-> neg, m |-> BShr(m, 1), e |-> e + 1]
    ELSE [neg |-> neg, m |-> m, e |-> e]

\* the quotient qr.quot of a division by d, moved to the nearest integer,
\* ties to the even one, at exponent e
Rounded(neg, d, e, qr) ==
    LET c == BCmp(BShl(qr.rem, 1), d)
    IN  Normal(neg,
               IF c > 0 \/ (c = 0 /\ BIsOdd(qr.quot))
               THEN BAdd(qr.quot, <<1>>) ELSE qr.quot,
               e)

\* the float nearest to (n / d) * 2^e for n / d of 53 or 54 bits: 53 bits
\* of the quotient are kept
NearestOfQuotient(neg, n, d, e) ==
    IF BBitLen(BDivMod(n, d).quot) > MantissaBits
    THEN Rounded(neg, BShl(d, 1), e + 1, BDivMod(n, BShl(d, 1)))
    ELSE Rounded(neg, d, e, BDivMod(n, d))

\* n / d scaled by 2^s, which brings the quotient to 53 or 54 bits
NearestScaled(neg, n, d, e, s) ==
    NearestOfQuotient(neg,
                      IF s >= 0 THEN BShl(n, s) ELSE n,
                      IF s >= 0 THEN d ELSE BShl(d, -s),
                      e - s)

\* the float nearest to (n / d) * 2^e, for naturals n and d > 0
Nearest(neg, n, d, e) ==
    IF n = <<>> THEN FZero
    ELSE NearestScaled(neg, n, d, e, MantissaBits - (BBitLen(n) - BBitLen(d)))

\* float(i), and the float a literal n/d denotes
FloatOfInt(i) == Nearest(i < 0, BFromInt(Abs(i)), <<1>>, 0)

FloatOfRatio(n, d) == Nearest(n < 0, BFromInt(Abs(n)), BFromInt(d), 0)

FNeg(x) == IF x.m = <<>> THEN x ELSE [x EXCEPT !.neg = ~@]

FMul(x, y) ==
    IF x.m = <<>> \/ y.m = <<>> THEN FZero
    ELSE Nearest(x.neg # y.neg, BMul(x.m, y.m), <<1>>, x.e + y.e)

\* for y # 0
FDiv(x, y) ==
    IF x.m = <<>> \/ y.m = <<>> THEN FZero
    ELSE Nearest(x.neg # y.neg, x.m, y.m, x.e - y.e)

\* both significands brought to the smaller exponent
Aligned(x, y) ==
    LET e == IF x.e < y.e THEN x.e ELSE y.e
    IN  [e |-> e, a |-> BShl(x.m, x.e - e), b |-> BShl(y.m, y.e - e)]

\* the sum of two floats that are not zero, from their aligned significands
AddAligned(xneg, yneg, al) ==
    Nearest(IF xneg = yneg \/ BCmp(al.a, al.b) >= 0 THEN xneg ELSE yneg,
            IF xneg = yneg THEN BAdd(al.a, al.b)
            ELSE IF BCmp(al.a, al.b) >= 0 THEN BSub(al.a, al.b)
            ELSE BSub(al.b, al.a),
            <<1>>, al.e)

FAdd(x, y) ==
    IF x.m = <<>> THEN y
    ELSE IF y.m = <<>> THEN x
    ELSE AddAligned(x.neg, y.neg, Aligned(x, y))

FSub(x, y) == FAdd(x, FNeg(y))

\* x < y for floats of the same sign, from their aligned significands
LessAligned(neg, al) ==
    IF neg THEN BCmp(al.a, al.b) > 0 ELSE BCmp(al.a, al.b) < 0

FLess(x, y) ==
    IF x.neg # y.neg THEN x.neg ELSE LessAligned(x.neg, Aligned(x, y))

FLeq(x, y) == ~FLess(y, x)

\* Python's max(x, y) and min(x, y): the first argument unless the second wins
FMax(x, y) == IF FLess(x, y) THEN y ELSE x

FMin(x, y) == IF FLess(y, x) THEN y ELSE x

Signed(neg, n) == IF neg THEN -n ELSE n

\* Python's round(x) and format(x, ".0f"): the exact value, ties to even
FRound(x) == Signed(x.neg, BToInt(BRoundShift(x.m, x.e)))

\* Python's round(x, 1), as a fraction in tenths: the exact decimal value
\* of x rounded to one place, ties to even
FRound1(x) == Rat(Signed(x.neg, BToInt(BRoundShift(BMulSmall(x.m, 10), x.e))), 10)

----------------------------------------------------------------------------
(* score_trip with every arithmetic step rounded as CPython rounds it: the  *)
(* sums and products above are exact, a Python float is not                 *)

\* distance_km = max((trip_data.get("distance_m") or 0) / 1000, 1.0)
DistanceKmFloat(trip_data) ==
    FMax(FDiv(FloatOfInt(OrZero(trip_data.distance_m)), FloatOfInt(1000)), FloatOfInt(1))

\* overspeed_amount = max(0, speed_ms * 3.6 - 50)
OverspeedAmountFloat(event) ==
    FMax(FloatOfInt(0),
         FSub(FMul(FloatOfInt(OrZero(event.speed_m_s)), FloatOfRatio(36, 10)),
              FloatOfInt(DEFAULT_LIMIT_KMH)))

\* one pass of the loop body "for event in events"
CountEventFloat(counted, event) ==
    LET event_type == Get(event.event_type, "unknown")
    IN  [event_counts |->
            CountsSet(counted.event_counts, event_type,
                      CountsGet(counted.event_counts, event_type, 0) + 1),
         max_overspeed_kmh |->
            IF event_type = "overspeed"
            THEN FMax(counted.max_overspeed_kmh, OverspeedAmountFloat(event))
            ELSE counted.max_overspeed_kmh]

\* the loop "for event in events"
RECURSIVE AggregateEventsFloat(_)
AggregateEventsFloat(events) ==
    IF events = <<>>
    THEN [event_counts |-> <<>>, max_overspeed_kmh |-> FZero]
    ELSE CountEventFloat(AggregateEventsFloat(SubSeq(events, 1, Len(events) - 1)),
                         events[Len(events)])

\* rate = (count / distance_km) * 100, the normalized_count of score_trip
RateFloat(count, distance_km) ==
    FMul(FDiv(FloatOfInt(count), distance_km), FloatOfInt(100))

\* deduction = normalized_count * penalty
DeductionFloat(event_type, count, distance_km) ==
    FMul(RateFloat(count, distance_km),
         FloatOfRatio(EVENT_PENALTIES(event_type)[1], EVENT_PENALTIES(event_type)[2]))

\* one pass of the loop body "for event_type, count in event_counts.items()":
\* "event_deduction += deduction" rounds the sum
DeductEventFloat(deducted, item, distance_km) ==
    [event_deduction |->
        FAdd(deducted.event_deduction, DeductionFloat(item[1], item[2], distance_km)),
     issues |-> deducted.issues \o CountIssue(item[1], item[2])]

\* the loop "for event_type, count in event_counts.items()"
RECURSIVE DeductEventsFloat(_, _)
DeductEventsFloat(event_counts, distance_km) ==
    IF event_counts = <<>>
    THEN [event_deduction |-> FZero, issues |-> <<>>]
    ELSE DeductEventFloat(
             DeductEventsFloat(SubSeq(event_counts, 1, Len(event_counts) - 1),
                               distance_km),
             event_counts[Len(event_counts)], distance_km)

\* breakdown["events"] = -min(event_deduction, 40)
EventsContributionFloat(event_deduction) ==
    FNeg(FMin(event_deduction, FloatOfInt(EVENTS_CAP)))

\* breakdown["overspeed"] = -min(max_overspeed_kmh * 0.5, 20)
OverspeedContributionFloat(max_overspeed_kmh) ==
    FNeg(FMin(FMul(max_overspeed_kmh,
                   FloatOfRatio(OVERSPEED_PENALTY_PER_KMH[1],
                                OVERSPEED_PENALTY_PER_KMH[2])),
              FloatOfInt(OVERSPEED_CAP)))

MaxSpeedIssueFloat(max_overspeed_kmh) ==
    IF FLess(FloatOfInt(10), max_overspeed_kmh)
    THEN << <<"Max speed exceeded limit by {max_overspeed_kmh:.0f} km/h",
              FRound(max_overspeed_kmh)>> >>
    ELSE <<>>

SignComplianceBonusFloat(detected_limits) ==
    IF detected_limits # <<>> THEN FloatOfInt(SIGN_BONUS) ELSE FZero

\* final_score = max(0, min(100, base_score + events + overspeed + sign_compliance))
FinalScoreFloat(breakdown) ==
    FMax(FloatOfInt(0),
         FMin(FloatOfInt(100),
              FAdd(FAdd(FAdd(FloatOfInt(BASE_SCORE), breakdown.events),
                        breakdown.overspeed), breakdown.sign_compliance)))

RECURSIVE FirstAtLeastFloat(_, _, _)
FirstAtLeastFloat(table, final_score, default) ==
    IF table = <<>> THEN default
    ELSE IF FLeq(FloatOfInt(Head(table)[2]), final_score) THEN Head(table)[1]
    ELSE FirstAtLeastFloat(Tail(table), final_score, default)

\* the hard-brake rule at a count and its rate
HardBrakeRuleAt(hard_brakes, rate) ==
    IF hard_brakes > 0
    THEN IF FLess(FloatOfInt(5), rate) THEN <<MSG_FOLLOWING_DISTANCE>>
         ELSE IF FLess(FloatOfInt(2), rate) THEN <<MSG_ANTICIPATE>>
         ELSE <<>>
    ELSE <<>>

HardBrakeRuleFloat(event_counts, distance_km) ==
    HardBrakeRuleAt(CountsGet(event_counts, "hard_brake", 0),
                    RateFloat(CountsGet(event_counts, "hard_brake", 0), distance_km))

HarshAccelRuleFloat(event_counts, distance_km) ==
    IF /\ CountsGet(event_counts, "harsh_accel", 0) > 0
       /\ FLess(FloatOfInt(3),
                RateFloat(CountsGet(event_counts, "harsh_accel", 0), distance_km))
    THEN <<MSG_SMOOTH_ACCEL>>
    ELSE <<>>

OverspeedRuleFloat(event_counts, max_overspeed_kmh) ==
    IF \/ CountsGet(event_counts, "overspeed", 0) > 0
       \/ FLess(FloatOfInt(5), max_overspeed_kmh)
    THEN IF FLess(FloatOfInt(20), max_overspeed_kmh)
         THEN <<MSG_DANGEROUS_SPEED>>
         ELSE <<MSG_WATCH_SPEED>>
    ELSE <<>>

\* "if not recommendations": the praise when no rule has fired
OrExcellent(generated) ==
    IF generated = <<>> THEN <<MSG_EXCELLENT>> ELSE generated

generate_recommendations_float(event_counts, max_overspeed_kmh, distance_km) ==
    Prefix(OrExcellent(HardBrakeRuleFloat(event_counts, distance_km)
                       \o HarshAccelRuleFloat(event_counts, distance_km)
                       \o OverspeedRuleFloat(event_counts, max_overspeed_kmh)
                       \o UnsafeCurveRule(event_counts)),
           MAX_RECOMMENDATIONS)

\* the breakdown dict before the return statement rounds it
BreakdownFloat(event_deduction, max_overspeed_kmh, detected_limits) ==
    [base |-> FloatOfInt(BASE_SCORE),
     events |-> EventsContributionFloat(event_deduction),
     overspeed |-> OverspeedContributionFloat(max_overspeed_kmh),
     sign_compliance |-> SignComplianceBonusFloat(detected_limits)]

\* the SafetyScore of the return statement
ReturnedFloat(final_score, issues, recommendations, breakdown) ==
    [issues |-> issues,
     breakdown |-> [k \in DOMAIN breakdown |-> FRound1(breakdown[k])],
     score |-> FRound(final_score),
     risk_level |-> FirstAtLeastFloat(SortedDesc(RISK_THRESHOLDS), final_score, "high"),
     grade |-> FirstAtLeastFloat(SortedDesc(GRADE_THRESHOLDS), final_score, "F"),
     recommendations |-> recommendations]

\* score_trip from the breakdown on
ScoreFromBreakdownFloat(counted, distance_km, issues, breakdown) ==
    ReturnedFloat(FinalScoreFloat(breakdown), issues,
                  generate_recommendations_float(counted.event_counts,
                                                 counted.max_overspeed_kmh,
                                                 distance_km),
                  breakdown)

\* score_trip from the end of the deduction loop on
ScoreFromDeductionsFloat(counted, distance_km, deducted, detected_limits) ==
    ScoreFromBreakdownFloat(counted, distance_km,
                            deducted.issues
                                \o MaxSpeedIssueFloat(counted.max_overspeed_kmh),
                            BreakdownFloat(deducted.event_deduction,
                                           counted.max_overspeed_kmh,
                                           detected_limits))

\* score_trip from the end of the event loop on
ScoreFromCountsFloat(counted, distance_km, detected_limits) ==
    ScoreFromDeductionsFloat(counted, distance_km,
                             DeductEventsFloat(counted.event_counts, distance_km),
                             detected_limits)

score_trip_float(trip_data, events, sign_detections) ==
    LET det == DetectLimits(sign_detections)
    IN  IF det.raised # None
        THEN [raised |-> det.raised, result |-> None]
        ELSE [raised |-> None,
              result |-> Some(ScoreFromCountsFloat(AggregateEventsFloat(events),
                                                   DistanceKmFloat(trip_data),
                                                   det.detected_limits))]

----------------------------------------------------------------------------
(* Inputs an upload can carry                                               *)

\* most records (events plus sign detections) in one upload
MaxRecords == 3

TripPool ==
    { [distance_m |-> None,        duration_seconds |-> None],
      [distance_m |-> Some(0),     duration_seconds |-> Some(0)],
      [distance_m |-> Some(500),   duration_seconds |-> Some(60)],
      [distance_m |-> Some(1000),  duration_seconds |-> Some(120)],
      [distance_m |-> Some(10000), duration_seconds |-> Some(600)],
      [distance_m |-> Some(14700), duration_seconds |-> None],
      [distance_m |-> Some(40000), duration_seconds |-> Some(2400)] }

EventPool ==
    { [event_type |-> Some("hard_brake"),     speed_m_s |-> None],
      [event_type |-> Some("harsh_accel"),    speed_m_s |-> Some(12)],
      [event_type |-> Some("unsafe_curve"),   speed_m_s |-> None],
      [event_type |-> Some("overspeed"),      speed_m_s |-> None],
      [event_type |-> Some("overspeed"),      speed_m_s |-> Some(17)],
      [event_type |-> Some("overspeed"),      speed_m_s |-> Some(30)],
      [event_type |-> Some("lane_departure"), speed_m_s |-> Some(30)],
      [event_type |-> None,                   speed_m_s |-> None] }

SignClass_speed_limit_60 == Chars_speed_limit_ \o <<"6","0">>

SignClass_end_speed_limit_80 == <<"e","n","d","_">> \o Chars_speed_limit_ \o <<"8","0">>

SignClass_speed_limit_x == Chars_speed_limit_ \o <<"x">>

SignClass_stop == <<"s","t","o","p">>

\* confidence in percent
DetectionPool ==
    { [sign_class |-> Some(SignClass_speed_limit_60),     confidence |-> Some(90)],
      [sign_class |-> Some(SignClass_end_speed_limit_80), confidence |-> None],
      [sign_class |-> Some(SignClass_speed_limit_x),      confidence |-> Some(80)],
      [sign_class |-> Some(SignClass_stop),               confidence |-> Some(95)],
      [sign_class |-> None,                               confidence |-> Some(10)] }

SeqsUpTo(S, n) == UNION {[1..k -> S] : k \in 0..n}

----------------------------------------------------------------------------
(* The store holds at most the one trip under study; report is the last    *)
(* HTTP response sent.                                                      *)

\* score_trip_data invocations that may run at the same time
NumCalls == 2

Calls == 1..NumCalls

\* an invocation not yet made
Idle == [pc |-> "idle", input |-> None, scorer |-> None, next_event |-> 1,
         overlapped |-> FALSE, result |-> None]

Init ==
    /\ trip = None
    /\ scorer = None
    /\ report = None
    /\ calls = [r \in Calls |-> Idle]
    /\ locals = [r \in Calls |-> NoEventsCounted]

\* POST /trips/upload with a payload drawn from the given pools
UploadFrom(trips, event_pool, detection_pool, max_records) ==
    /\ trip = None
    /\ \E t \in trips, n \in 0..max_records :
         \E events \in SeqsUpTo(event_pool, n) :
           \E sign_detections \in SeqsUpTo(detection_pool, n - Len(events)) :
             trip' = Some([distance_m |-> t.distance_m,
                           duration_seconds |-> t.duration_seconds,
                           events |-> events,
                           sign_detections |-> sign_detections])
    /\ report' = Some([status |-> 201, raised |-> None, result |-> None])
    /\ UNCHANGED <<scorer, calls, locals>>

upload_trip == UploadFrom(TripPool, EventPool, DetectionPool, MaxRecords)

\* GET /trips/{trip_id}/report
get_trip_report ==
    IF trip = None
    THEN /\ report' = Some([status |-> 404, raised |-> None, result |-> None])
         /\ UNCHANGED <<trip, scorer, calls, locals>>
    ELSE LET t == trip[1]
             trip_data == [distance_m |-> t.distance_m,
                           duration_seconds |-> t.duration_seconds]
             scoring_result == score_trip_data(trip_data, t.events, t.sign_detections)
         IN  /\ scorer' = get_scorer(scorer)
             /\ report' = Some([status |-> IF scoring_result.raised = None THEN 200 ELSE 500,
                                raised |-> scoring_result.raised,
                                result |-> scoring_result.result])
             /\ UNCHANGED <<trip, calls, locals>>

Next == upload_trip \/ get_trip_report

Spec == Init /\ [][Next]_vars

----------------------------------------------------------------------------
(* Uploads of longer event lists on trips of 10, 20 and 100 km, where the   *)
(* rates of the recommendation rules meet their thresholds                  *)

\* most events in one such upload
MaxRuleEvents == 4

RuleTripPool ==
    { [distance_m |-> Some(500),    duration_seconds |-> Some(60)],
      [distance_m |-> Some(10000),  duration_seconds |-> Some(600)],
      [distance_m |-> Some(20000),  duration_seconds |-> Some(1200)],
      [distance_m |-> Some(100000), duration_seconds |-> None] }

RuleEventPool ==
    { [event_type |-> Some("hard_brake"),     speed_m_s |-> None],
      [event_type |-> Some("harsh_accel"),    speed_m_s |-> None],
      [event_type |-> Some("overspeed"),      speed_m_s |-> None],
      [event_type |-> Some("unsafe_curve"),   speed_m_s |-> Some(9)],
      [event_type |-> Some("lane_departure"), speed_m_s |-> None],
      [event_type |-> None,                   speed_m_s |-> None] }

upload_trip_rules == UploadFrom(RuleTripPool, RuleEventPool, {}, MaxRuleEvents)

NextRules == upload_trip_rules \/ get_trip_report

SpecRules == Init /\ [][NextRules]_vars

\* uploads for the sign detections: every kind of detection, few events
MaxSignRecords == 3

SignTripPool ==
    { [distance_m |-> Some(10000), duration_seconds |-> Some(600)],
      [distance_m |-> Some(26100), duration_seconds |-> Some(1500)],
      [distance_m |-> Some(40000), duration_seconds |-> None] }

SignEventPool ==
    { [event_type |-> Some("hard_brake"), speed_m_s |-> None],
      [event_type |-> Some("overspeed"),  speed_m_s |-> Some(17)] }

upload_trip_signs == UploadFrom(SignTripPool, SignEventPool, DetectionPool, MaxSignRecords)

NextSigns == upload_trip_signs \/ get_trip_report

SpecSigns == Init /\ [][NextSigns]_vars

\* uploads where all four rules can fire at once: events of every type on
\* trips of 10 and 100 km, with speeds above the limit on overspeed events
\* and on other events
MaxCapEvents == 4

CapTripPool ==
    { [distance_m |-> Some(10000),  duration_seconds |-> Some(600)],
      [distance_m |-> Some(100000), duration_seconds |-> None] }

CapEventPool ==
    { [event_type |-> Some("hard_brake"),     speed_m_s |-> Some(30)],
      [event_type |-> Some("harsh_accel"),    speed_m_s |-> None],
      [event_type |-> Some("overspeed"),      speed_m_s |-> None],
      [event_type |-> Some("overspeed"),      speed_m_s |-> Some(17)],
      [event_type |-> Some("overspeed"),      speed_m_s |-> Some(30)],
      [event_type |-> Some("unsafe_curve"),   speed_m_s |-> Some(30)],
      [event_type |-> Some("lane_departure"), speed_m_s |-> Some(30)] }

upload_trip_cap == UploadFrom(CapTripPool, CapEventPool, {}, MaxCapEvents)

NextCap == upload_trip_cap \/ get_trip_report

SpecCap == Init /\ [][NextCap]_vars

\* uploads for the speeds: events of every type at speeds on both sides of
\* the 50 km/h limit, of the 10 km/h issue threshold and of the 20-point cap
MaxSpeedEvents == 3

SpeedTripPool ==
    { [distance_m |-> Some(100000), duration_seconds |-> Some(6000)],
      [distance_m |-> None,         duration_seconds |-> None] }

SpeedEventPool ==
    { [event_type |-> Some("overspeed"),      speed_m_s |-> None],
      [event_type |-> Some("overspeed"),      speed_m_s |-> Some(10)],
      [event_type |-> Some("overspeed"),      speed_m_s |-> Some(16)],
      [event_type |-> Some("overspeed"),      speed_m_s |-> Some(17)],
      [event_type |-> Some("overspeed"),      speed_m_s |-> Some(25)],
      [event_type |-> Some("overspeed"),      speed_m_s |-> Some(30)],
      [event_type |-> Some("hard_brake"),     speed_m_s |-> Some(30)],
      [event_type |-> Some("harsh_accel"),    speed_m_s |-> Some(17)],
      [event_type |-> Some("unsafe_curve"),   speed_m_s |-> None],
      [event_type |-> Some("lane_departure"), speed_m_s |-> Some(40)] }

upload_trip_speeds == UploadFrom(SpeedTripPool, SpeedEventPool, {}, MaxSpeedEvents)

NextSpeeds == upload_trip_speeds \/ get_trip_report

SpecSpeeds == Init /\ [][NextSpeeds]_vars


\* uploads for the rounding of Python's float arithmetic: trips whose
\* per-100-km factor 100 / distance_km is not a whole number of halves, so
\* that the sum of the per-type deductions is rounded at every step
MaxFloatEvents == 3

FloatTripPool ==
    { [distance_m |-> Some(24000),  duration_seconds |-> Some(1800)],
      [distance_m |-> Some(48000),  duration_seconds |-> None],
      [distance_m |-> Some(120000), duration_seconds |-> Some(6000)] }

FloatEventPool ==
    { [event_type |-> Some("hard_brake"),   speed_m_s |-> None],
      [event_type |-> Some("harsh_accel"),  speed_m_s |-> None],
      [event_type |-> Some("overspeed"),    speed_m_s |-> None],
      [event_type |-> Some("overspeed"),    speed_m_s |-> Some(17)],
      [event_type |-> Some("unsafe_curve"), speed_m_s |-> Some(30)] }

upload_trip_float == UploadFrom(FloatTripPool, FloatEventPool, {}, MaxFloatEvents)

\* GET /trips/{trip_id}/report, the score computed in binary64
get_trip_report_float ==
    IF trip = None
    THEN /\ report' = Some([status |-> 404, raised |-> None, result |-> None])
         /\ UNCHANGED <<trip, scorer, calls, locals>>
    ELSE LET t == trip[1]
             trip_data == [distance_m |-> t.distance_m,
                           duration_seconds |-> t.duration_seconds]
             scoring_result == score_trip_float(trip_data, t.events, t.sign_detections)
         IN  /\ scorer' = get_scorer(scorer)
             /\ report' = Some([status |-> IF scoring_result.raised = None THEN 200 ELSE 500,
                                raised |-> scoring_result.raised,
                                result |-> scoring_result.result])
             /\ UNCHANGED <<trip, calls, locals>>

NextFloat == upload_trip_float \/ get_trip_report_float

SpecFloat == Init /\ [][NextFloat]_vars

----------------------------------------------------------------------------
(* score_trip_data invoked by several requests at once, statement by        *)
(* statement: get_scorer's test, creation and return, then score_trip's     *)
(* event loop and the rest of its body                                      *)

ConcInputPool ==
    { [trip_data |-> [distance_m |-> Some(10000), duration_seconds |-> Some(600)],
       events |-> << [event_type |-> Some("hard_brake"), speed_m_s |-> None],
                     [event_type |-> Some("overspeed"),  speed_m_s |-> Some(25)] >>,
       sign_detections |-> <<>>],
      [trip_data |-> [distance_m |-> Some(100000), duration_seconds |-> None],
       events |-> << [event_type |-> Some("harsh_accel"),  speed_m_s |-> None],
                     [event_type |-> Some("unsafe_curve"), speed_m_s |-> Some(9)] >>,
       sign_detections |-> << [sign_class |-> Some(SignClass_speed_limit_60),
                               confidence |-> Some(90)] >>],
      [trip_data |-> [distance_m |-> None, duration_seconds |-> None],
       events |-> <<>>,
       sign_detections |-> <<>>] }

\* where an invocation's event_counts and max_overspeed_kmh live: on the
\* one scorer instance, shared by every invocation
LocalsOnInstance(r) == 1

\* where an invocation's event_counts and max_overspeed_kmh live: in local
\* variables of its own frame
LocalsOf(r) == r

InFlight(r) == calls[r].pc \notin {"idle", "done"}

\* another invocation is between its entry and its return
Overlaps(r) == \E q \in Calls \ {r} : InFlight(q)

\* score_trip_data(trip_data, events, sign_detections) is entered
CallScoreTripData(r) ==
    /\ calls[r].pc = "idle"
    /\ \E input \in ConcInputPool :
         calls' = [calls EXCEPT ![r] = [@ EXCEPT !.pc = "get_scorer",
                                                 !.input = Some(input),
                                                 !.overlapped = Overlaps(r)]]
    /\ UNCHANGED <<trip, scorer, report, locals>>

\* get_scorer: "if _scorer is None"
GetScorerTest(r) ==
    /\ calls[r].pc = "get_scorer"
    /\ calls' = [calls EXCEPT ![r] = [@ EXCEPT !.pc = IF scorer = None THEN "create"
                                                      ELSE "return",
                                               !.overlapped = @ \/ Overlaps(r)]]
    /\ UNCHANGED <<trip, scorer, report, locals>>

\* get_scorer: "_scorer = DriverScorer()"
GetScorerCreate(r) ==
    /\ calls[r].pc = "create"
    /\ scorer' = get_scorer(None)
    /\ calls' = [calls EXCEPT ![r] = [@ EXCEPT !.pc = "return",
                                               !.overlapped = @ \/ Overlaps(r)]]
    /\ UNCHANGED <<trip, report, locals>>

\* get_scorer: "return _scorer", then score_trip up to its event loop
GetScorerReturn(r) ==
    /\ calls[r].pc = "return"
    /\ calls' = [calls EXCEPT ![r] = [@ EXCEPT !.pc = "loop",
                                               !.scorer = scorer,
                                               !.next_event = 1,
                                               !.overlapped = @ \/ Overlaps(r)]]
    /\ locals' = [locals EXCEPT ![LocalsOf(r)] = NoEventsCounted]
    /\ UNCHANGED <<trip, scorer, report>>

\* one pass of "for event in events"
ScoreTripEvent(r) ==
    /\ calls[r].pc = "loop"
    /\ calls[r].next_event <= Len(calls[r].input[1].events)
    /\ locals' = [locals EXCEPT ![LocalsOf(r)] =
                      CountEvent(@, calls[r].input[1].events[calls[r].next_event])]
    /\ calls' = [calls EXCEPT ![r] = [@ EXCEPT !.next_event = @ + 1,
                                               !.overlapped = @ \/ Overlaps(r)]]
    /\ UNCHANGED <<trip, scorer, report>>

\* the loop is over: the rest of score_trip, and the dict returned
ScoreTripReturn(r) ==
    /\ calls[r].pc = "loop"
    /\ calls[r].next_event > Len(calls[r].input[1].events)
    /\ LET input == calls[r].input[1]
           mine == locals[LocalsOf(r)]
           scoring_result == ScoreFromCounts(input.trip_data, mine.event_counts,
                                             mine.max_overspeed_kmh,
                                             input.sign_detections)
       IN  calls' = [calls EXCEPT ![r] = [@ EXCEPT !.pc = "done",
                                                   !.result = scoring_result.result,
                                                   !.overlapped = @ \/ Overlaps(r)]]
    /\ UNCHANGED <<trip, scorer, report, locals>>

NextConc ==
    \E r \in Calls :
        \/ CallScoreTripData(r)
        \/ GetScorerTest(r)
        \/ GetScorerCreate(r)
        \/ GetScorerReturn(r)
        \/ ScoreTripEvent(r)
        \/ ScoreTripReturn(r)

SpecConc == Init /\ [][NextConc]_vars

----------------------------------------------------------------------------
(* Properties of the reports returned                                       *)

\* a report was computed for the stored trip and returned (no exception)
Reported == report # None /\ report[1].status = 200

\* the SafetyScore of the report, and the inputs it was computed from
TheScore == report[1].result[1]

TheTripData == [distance_m |-> trip[1].distance_m,
                duration_seconds |-> trip[1].duration_seconds]

TheEvents == trip[1].events

TheDetections == trip[1].sign_detections

\* the SafetyScore score_trip returns for other inputs
ScoreOf(trip_data, events, sign_detections) ==
    score_trip(trip_data, events, sign_detections).result[1]

\* a detection that counts as a speed-limit detection: its sign_class holds
\* "speed_limit_" and what follows its last "_" parses as an integer
ValidSpeedLimit(detection) ==
    LET sign_class == Get(detection.sign_class, <<>>)
    IN  /\ Contains(Chars_speed_limit_, sign_class)
        /\ IntParse(LastToken(sign_class)) # None

\* clamp(100 + events + overspeed + sign_compliance, 0, 100) with
\* events = -min(event_deduction, 40), overspeed = -min(0.5 * max_overspeed_kmh, 20)
\* and the 0-or-5 bonus, nothing rounded
UnroundedFinal(trip_data, events, sign_detections) ==
    LET agg == AggregateEvents(events)
        event_deduction == DeductEvents(agg.event_counts, DistanceKm(trip_data)).event_deduction
        half_overspeed == RMul(Rat(1, 2), agg.max_overspeed_kmh)
        e == IF RLess(event_deduction, FromInt(40)) THEN event_deduction ELSE FromInt(40)
        o == IF RLess(half_overspeed, FromInt(20)) THEN half_overspeed ELSE FromInt(20)
        b == IF \E i \in 1..Len(sign_detections) : ValidSpeedLimit(sign_detections[i])
             THEN FromInt(5) ELSE FromInt(0)
        sum == RAdd(RSub(RSub(FromInt(100), e), o), b)
    IN  IF RLess(sum, FromInt(0)) THEN FromInt(0)
        ELSE IF RLess(FromInt(100), sum) THEN FromInt(100)
        ELSE sum

TheFinal == UnroundedFinal(TheTripData, TheEvents, TheDetections)

\* n is x rounded to the nearest integer, a tie going to the even neighbour
IsRoundOf(n, x) ==
    LET twice == RMul(FromInt(2), RSub(FromInt(n), x))
    IN  /\ RLeq(twice, FromInt(1))
        /\ RLeq(FromInt(-1), twice)
        /\ (Abs(twice[1]) = 1 /\ twice[2] = 1) => n % 2 = 0

\* C1: every returned score is an integer with 0 <= score <= 100
C1_ScoreBounds == Reported => TheScore.score \in 0..100

\* C1 witness: a report where the sum 100 + 5 was clamped down to 100
C1_Witness ==
    /\ Reported
    /\ TheEvents = <<>>
    /\ TheScore.breakdown.sign_compliance = FromInt(5)
    /\ TheScore.score = 100

\* C2: score = round(clamp(100 + events + overspeed + sign_compliance, 0, 100)),
\* the three contributions taken before the breakdown is rounded
C2_ScoreFormula == Reported => IsRoundOf(TheScore.score, TheFinal)

\* C2 witness: a report whose unrounded final value is not an integer and is
\* lowered by both deductions and raised by the bonus
C2_Witness ==
    /\ Reported
    /\ TheFinal[2] # 1
    /\ TheScore.breakdown.events # FromInt(0)
    /\ TheScore.breakdown.overspeed # FromInt(0)
    /\ TheScore.breakdown.sign_compliance = FromInt(5)

\* C3: the events contribution lies in [-40, 0] and the overspeed contribution
\* in [-20, 0]
C3_CapsEnforced ==
    Reported =>
        /\ RLeq(FromInt(-40), TheScore.breakdown.events)
        /\ RLeq(TheScore.breakdown.events, FromInt(0))
        /\ RLeq(FromInt(-20), TheScore.breakdown.overspeed)
        /\ RLeq(TheScore.breakdown.overspeed, FromInt(0))

\* C3 witness: a trip of at most 1 km with an overspeed event at 30 m/s: both
\* uncapped deductions exceed their caps
C3_Witness ==
    /\ Reported
    /\ OrZero(TheTripData.distance_m) <= 1000
    /\ \E i \in 1..Len(TheEvents) :
         TheEvents[i] = [event_type |-> Some("overspeed"), speed_m_s |-> Some(30)]
    /\ TheScore.breakdown.events = FromInt(-40)
    /\ TheScore.breakdown.overspeed = FromInt(-20)

\* C4: sign_compliance is exactly 5.0 when at least one detection is a valid
\* speed-limit detection and exactly 0 otherwise, however many there are
C4_SignBonusFlat ==
    Reported =>
        TheScore.breakdown.sign_compliance =
            IF \E i \in 1..Len(TheDetections) : ValidSpeedLimit(TheDetections[i])
            THEN FromInt(5) ELSE FromInt(0)

\* C4 witness: a report over two valid speed-limit detections, bonus still 5.0
C4_Witness ==
    /\ Reported
    /\ Cardinality({i \in 1..Len(TheDetections) : ValidSpeedLimit(TheDetections[i])}) >= 2
    /\ TheScore.breakdown.sign_compliance = FromInt(5)

\* C5: no events and no detections give score 100, risk low, grade A, no
\* issues and the single "Excellent driving" recommendation, whatever the
\* distance and duration
C5_EmptyInputPerfect ==
    (Reported /\ TheEvents = <<>> /\ TheDetections = <<>>) =>
        /\ TheScore.score = 100
        /\ TheScore.risk_level = "low"
        /\ TheScore.grade = "A"
        /\ TheScore.issues = <<>>
        /\ TheScore.recommendations = <<MSG_EXCELLENT>>

\* C5 witness: the report of an empty trip whose distance and duration are null
C5_Witness ==
    /\ Reported
    /\ TheEvents = <<>>
    /\ TheDetections = <<>>
    /\ TheTripData.distance_m = None
    /\ TheTripData.duration_seconds = None
    /\ TheScore.score = 100

\* a report was attempted: score_trip ran, whether it returned or raised
Scored == report # None /\ report[1].status \in {200, 500}

\* the inputs with every default the code applies written out: a null
\* distance or duration as 0, a null speed of an overspeed event as 0, a
\* missing event_type as the default type, malformed speed-limit classes dropped
ZeroIfNull(opt) == IF opt = None THEN Some(0) ELSE opt

DefaultedTripData(trip_data) ==
    [distance_m |-> ZeroIfNull(trip_data.distance_m),
     duration_seconds |-> ZeroIfNull(trip_data.duration_seconds)]

DefaultedEvents(events) ==
    [i \in 1..Len(events) |->
        [event_type |-> IF events[i].event_type = None THEN Some("unknown")
                        ELSE events[i].event_type,
         speed_m_s |-> IF events[i].event_type = Some("overspeed")
                       THEN ZeroIfNull(events[i].speed_m_s)
                       ELSE events[i].speed_m_s]]

Malformed(detection) ==
    LET sign_class == Get(detection.sign_class, <<>>)
    IN  /\ Contains(Chars_speed_limit_, sign_class)
        /\ IntParse(LastToken(sign_class)) = None

NotMalformed(detection) == ~Malformed(detection)

\* C6: score_trip never raises; null and missing fields count as their
\* defaults, a malformed speed-limit class is ignored, and a complete
\* SafetyScore is returned
C6_NeverRaises ==
    Scored =>
        /\ report[1].status = 200
        /\ report[1].raised = None
        /\ report[1].result # None
        /\ DOMAIN TheScore =
             {"score", "risk_level", "grade", "issues", "recommendations", "breakdown"}
        /\ TheScore = ScoreOf(DefaultedTripData(TheTripData), DefaultedEvents(TheEvents),
                              SelectSeq(TheDetections, NotMalformed))

\* C6 witness: a report over a null distance, an overspeed event with a null
\* speed, an event without event_type and a malformed speed-limit class
C6_Witness ==
    /\ Reported
    /\ TheTripData.distance_m = None
    /\ \E i \in 1..Len(TheEvents) :
         TheEvents[i] = [event_type |-> Some("overspeed"), speed_m_s |-> None]
    /\ \E i \in 1..Len(TheEvents) : TheEvents[i].event_type = None
    /\ \E i \in 1..Len(TheDetections) : Malformed(TheDetections[i])
    /\ TheScore.breakdown.sign_compliance = FromInt(0)

\* the events with one more hard_brake event appended
WithHardBrake(events, speed_m_s) ==
    Append(events, [event_type |-> Some("hard_brake"), speed_m_s |-> speed_m_s])

\* C7: with the trip summary, the other events and the detections fixed,
\* one more hard_brake event never increases the score
C7_HardBrakeMonotone ==
    Reported =>
        \A speed_m_s \in {None, Some(30)} :
            ScoreOf(TheTripData, WithHardBrake(TheEvents, speed_m_s), TheDetections).score
                <= TheScore.score

\* C7 witness: a report over other events whose score one more hard_brake
\* strictly lowers
C7_Witness ==
    /\ Reported
    /\ TheEvents # <<>>
    /\ ScoreOf(TheTripData, WithHardBrake(TheEvents, None), TheDetections).score
         < TheScore.score

\* C8: the distance used for normalization is never below 1.0 km, and a trip
\* of at most 1000 m (0 and null included) gets the events contribution, the
\* score and the recommendations of the same trip at 1000 m
C8_DistanceFloor ==
    Reported =>
        /\ RLeq(FromInt(1), DistanceKm(TheTripData))
        /\ OrZero(TheTripData.distance_m) <= 1000 =>
             LET at1000 == [TheTripData EXCEPT !.distance_m = Some(1000)]
                 r == ScoreOf(at1000, TheEvents, TheDetections)
             IN  /\ DistanceKm(TheTripData) = DistanceKm(at1000)
                 /\ TheScore.breakdown.events = r.breakdown.events
                 /\ TheScore.score = r.score
                 /\ TheScore.recommendations = r.recommendations

\* C8 witness: a report of a 500 m trip with a hard_brake event
C8_Witness ==
    /\ Reported
    /\ TheTripData.distance_m = Some(500)
    /\ \E i \in 1..Len(TheEvents) : TheEvents[i].event_type = Some("hard_brake")
    /\ TheScore.breakdown.events # FromInt(0)

\* risk level and grade a value v earns under inclusive thresholds
RiskFor(v) ==
    IF RLeq(FromInt(80), v) THEN "low"
    ELSE IF RLeq(FromInt(60), v) THEN "medium"
    ELSE "high"

GradeFor(v) ==
    IF RLeq(FromInt(90), v) THEN "A"
    ELSE IF RLeq(FromInt(80), v) THEN "B"
    ELSE IF RLeq(FromInt(70), v) THEN "C"
    ELSE IF RLeq(FromInt(60), v) THEN "D"
    ELSE "F"

\* C9: risk_level and grade follow the clamped, unrounded final value with
\* inclusive thresholds (80/60 for risk, 90/80/70/60 for grade)
C9_RiskGradeFromFinal ==
    Reported =>
        /\ TheScore.risk_level = RiskFor(TheFinal)
        /\ TheScore.grade = GradeFor(TheFinal)

\* C9 witness: a final value of exactly 60 reported as risk medium, grade D
C9_Witness ==
    /\ Reported
    /\ TheFinal = FromInt(60)
    /\ TheScore.risk_level = "medium"
    /\ TheScore.grade = "D"

\* C10: risk_level and grade agree with the returned integer score under the
\* same thresholds
C10_RiskGradeFromScore ==
    Reported =>
        /\ TheScore.risk_level = RiskFor(FromInt(TheScore.score))
        /\ TheScore.grade = GradeFor(FromInt(TheScore.score))

----------------------------------------------------------------------------
(* Recommendations                                                          *)

\* the messages of the four rules for the stored trip, in rule order:
\* hard-brake, harsh-accel, overspeed, unsafe-curve
TheGenerated ==
    LET agg == AggregateEvents(TheEvents)
        distance_km == DistanceKm(TheTripData)
    IN  HardBrakeRule(agg.event_counts, distance_km)
        \o HarshAccelRule(agg.event_counts, distance_km)
        \o OverspeedRule(agg.event_counts, agg.max_overspeed_kmh)
        \o UnsafeCurveRule(agg.event_counts)

\* the first min(3, Len(seq)) entries of seq
FirstThree(seq) == [i \in 1..(IF Len(seq) < 3 THEN Len(seq) ELSE 3) |-> seq[i]]

InSeq(x, seq) == \E i \in 1..Len(seq) : seq[i] = x

\* C12 as stated: recommendations is the first min(3, n) of the n messages
\* the four rules generate, at most 3 entries, the unsafe-curve message
\* dropped when all four fire
C12_FirstThreeOfRules ==
    Reported =>
        /\ TheScore.recommendations = FirstThree(TheGenerated)
        /\ Len(TheScore.recommendations) <= 3
        /\ Len(TheGenerated) = 4 => ~InSeq(MSG_CURVES, TheScore.recommendations)

\* C12 amended: the same whenever the rules generate at least one message
\* (with none, recommendations is the single positive message)
C12_FirstThreeWhenAnyRuleFires ==
    Reported =>
        /\ Len(TheGenerated) >= 1 => TheScore.recommendations = FirstThree(TheGenerated)
        /\ Len(TheGenerated) = 0 => TheScore.recommendations = <<MSG_EXCELLENT>>
        /\ Len(TheScore.recommendations) <= 3
        /\ Len(TheGenerated) = 4 => ~InSeq(MSG_CURVES, TheScore.recommendations)

\* C12 witness: all four rules fired and the report keeps the first three
C12_Witness ==
    /\ Reported
    /\ Len(TheGenerated) = 4
    /\ TheScore.recommendations = <<MSG_ANTICIPATE, MSG_SMOOTH_ACCEL, MSG_WATCH_SPEED>>

\* C13: the positive message is returned exactly when no rule produced a
\* message, then alone; recommendations is never empty and the positive
\* message never accompanies another one
C13_PraiseIffNoRuleFires ==
    Reported =>
        /\ InSeq(MSG_EXCELLENT, TheScore.recommendations) <=> TheGenerated = <<>>
        /\ TheGenerated = <<>> => TheScore.recommendations = <<MSG_EXCELLENT>>
        /\ TheScore.recommendations # <<>>
        /\ InSeq(MSG_EXCELLENT, TheScore.recommendations) =>
             Len(TheScore.recommendations) = 1

\* C13 witness: events were recorded, no rule fired, the report praises
C13_Witness ==
    /\ Reported
    /\ TheEvents # <<>>
    /\ TheGenerated = <<>>
    /\ TheScore.recommendations = <<MSG_EXCELLENT>>

----------------------------------------------------------------------------
(* The thresholds of the recommendation rules                               *)

\* how many of the stored events carry the event type
CountOf(type) ==
    Cardinality({i \in 1..Len(TheEvents) : TheEvents[i].event_type = Some(type)})

\* the distance of the stored trip in metres, at least one kilometre
TheMetres ==
    LET distance_m == OrZero(TheTripData.distance_m)
    IN  IF distance_m < 1000 THEN 1000 ELSE distance_m

\* count / distance_km * 100 > k, in whole numbers
RateAbove(count, k) == count * 100000 > k * TheMetres

\* C20: with rate = count / distance_km * 100, the hard-brake rule emits the
\* following-distance message iff rate > 5, the anticipate message iff
\* 2 < rate <= 5 and nothing iff rate <= 2; the harsh-accel rule emits its
\* message iff rate > 3; the unsafe-curve rule emits its message iff the
\* unsafe_curve count > 0 (it reaches the returned list unless three earlier
\* messages fill it). Rates of exactly 5, 2 and 3 fall on the lower side.
C20_RuleThresholds ==
    Reported =>
        LET recs == TheScore.recommendations
            hard_brakes == CountOf("hard_brake")
            harsh_accels == CountOf("harsh_accel")
            unsafe_curves == CountOf("unsafe_curve")
        IN  /\ InSeq(MSG_FOLLOWING_DISTANCE, recs) <=> RateAbove(hard_brakes, 5)
            /\ InSeq(MSG_ANTICIPATE, recs)
                 <=> (RateAbove(hard_brakes, 2) /\ ~RateAbove(hard_brakes, 5))
            /\ (~InSeq(MSG_FOLLOWING_DISTANCE, recs) /\ ~InSeq(MSG_ANTICIPATE, recs))
                 <=> ~RateAbove(hard_brakes, 2)
            /\ InSeq(MSG_SMOOTH_ACCEL, recs) <=> RateAbove(harsh_accels, 3)
            /\ (UnsafeCurveRule(AggregateEvents(TheEvents).event_counts) = <<MSG_CURVES>>)
                 <=> unsafe_curves > 0
            /\ InSeq(MSG_CURVES, recs) => unsafe_curves > 0
            /\ (unsafe_curves > 0 /\ Len(recs) < 3) => InSeq(MSG_CURVES, recs)

\* a hard-brake rate of exactly 5 was reported with an unsafe curve: the
\* anticipate message and the curve message are both returned
C20_Witness ==
    /\ Reported
    /\ CountOf("hard_brake") * 100000 = 5 * TheMetres
    /\ InSeq(MSG_ANTICIPATE, TheScore.recommendations)
    /\ CountOf("unsafe_curve") > 0
    /\ InSeq(MSG_CURVES, TheScore.recommendations)

----------------------------------------------------------------------------
(* The event deduction, event by event                                      *)

KnownTypes == {"hard_brake", "harsh_accel", "overspeed", "unsafe_curve"}

CountTemplates ==
    {"Hard braking: {count} times", "Harsh acceleration: {count} times",
     "Over speed limit: {count} times", "Unsafe cornering: {count} times"}

\* the penalty of one event, in halves of a point per 100 km
PenaltyHalves(event) ==
    CASE event.event_type = Some("hard_brake") -> 6
      [] event.event_type = Some("harsh_accel") -> 4
      [] event.event_type = Some("overspeed") -> 8
      [] event.event_type = Some("unsafe_curve") -> 7
      [] OTHER -> 4

RECURSIVE SumPenaltyHalves(_)
SumPenaltyHalves(events) ==
    IF events = <<>> THEN 0
    ELSE PenaltyHalves(Head(events)) + SumPenaltyHalves(Tail(events))

\* the sum over the stored events of 100 * penalty / distance_km
ExpectedDeduction == Rat(SumPenaltyHalves(TheEvents) * 50000, TheMetres)

\* the stored events of a type that is not one of the four known ones
UnrecognizedEvents ==
    {i \in 1..Len(TheEvents) :
        \A type \in KnownTypes : TheEvents[i].event_type # Some(type)}

\* C17: the uncapped event deduction is the sum over the event types present
\* of (count / distance_km) * 100 * penalty, with penalty 3.0 for hard_brake,
\* 2.0 for harsh_accel, 4.0 for overspeed, 3.5 for unsafe_curve and 2.0 for
\* every other type, a missing event_type included; the returned events
\* contribution is that sum capped at 40 and negated, and an unrecognized
\* type adds no entry to issues.
C17_DeductionPerType ==
    Reported =>
        LET agg == AggregateEvents(TheEvents)
            ded == DeductEvents(agg.event_counts, DistanceKm(TheTripData))
            issues == TheScore.issues
        IN  /\ ded.event_deduction = ExpectedDeduction
            /\ TheScore.breakdown.events
                 = PyRound1(RNeg(RMin(ExpectedDeduction, FromInt(40))))
            /\ Cardinality({i \in 1..Len(issues) : issues[i][1] \in CountTemplates})
                 = Cardinality({type \in KnownTypes : CountOf(type) > 0})
            /\ UnrecognizedEvents = DOMAIN TheEvents => issues = <<>>

\* a 100 km trip with one lane_departure event and one event without a type
\* was reported: 2 points each, and no issue
C17_Witness ==
    /\ Reported
    /\ TheMetres = 100000
    /\ Len(TheEvents) = 2
    /\ TheEvents[1].event_type = Some("lane_departure")
    /\ TheEvents[2].event_type = None
    /\ TheScore.breakdown.events = Rat(-4, 1)
    /\ TheScore.issues = <<>>

----------------------------------------------------------------------------
(* What a sign detection can change                                         *)

\* the detections with every confidence replaced
WithConfidence(sign_detections, confidence) ==
    [i \in 1..Len(sign_detections) |->
        [sign_detections[i] EXCEPT !.confidence = confidence]]

HoldsSpeedLimit(detection) ==
    Contains(Chars_speed_limit_, Get(detection.sign_class, <<>>))

\* the detections whose sign_class holds "speed_limit_"
SpeedLimitOnly(sign_detections) == SelectSeq(sign_detections, HoldsSpeedLimit)

NonSpeedLimitPool == {d \in DetectionPool : ~HoldsSpeedLimit(d)}

\* C16: confidence values, and detections whose sign_class does not hold
\* "speed_limit_", do not affect the result: replacing every confidence,
\* removing the non-speed-limit detections, or adding one at either end,
\* returns the identical SafetyScore.
C16_ConfidenceAndOtherSignsIgnored ==
    Reported =>
        /\ \A confidence \in {None, Some(0), Some(49), Some(100)} :
             ScoreOf(TheTripData, TheEvents, WithConfidence(TheDetections, confidence))
               = TheScore
        /\ ScoreOf(TheTripData, TheEvents, SpeedLimitOnly(TheDetections)) = TheScore
        /\ \A d \in NonSpeedLimitPool :
             /\ ScoreOf(TheTripData, TheEvents, <<d>> \o TheDetections) = TheScore
             /\ ScoreOf(TheTripData, TheEvents, Append(TheDetections, d)) = TheScore

\* a report with the sign bonus was returned for a confident speed-limit
\* detection next to a stop sign
C16_Witness ==
    /\ Reported
    /\ TheScore.breakdown.sign_compliance = FromInt(5)
    /\ \E i \in DOMAIN TheDetections :
         HoldsSpeedLimit(TheDetections[i]) /\ TheDetections[i].confidence = Some(90)
    /\ \E i \in DOMAIN TheDetections : ~HoldsSpeedLimit(TheDetections[i])

----------------------------------------------------------------------------
(* The speeds of overspeed events, and the issues                           *)

\* ten times the largest of max(0, speed_m_s * 3.6 - 50) over the stored
\* overspeed events, 0 when there is none
ExpectedMaxTenths ==
    LET excesses == {0} \cup
            {36 * OrZero(TheEvents[i].speed_m_s) - 500 :
                i \in {j \in 1..Len(TheEvents) : TheEvents[j].event_type = Some("overspeed")}}
    IN  CHOOSE x \in excesses : \A y \in excesses : y <= x

ExpectedMax == Rat(ExpectedMaxTenths, 10)

\* C19: max_overspeed_kmh is the largest of max(0, speed_m_s * 3.6 - 50) over
\* the overspeed events only, 0 when there is none; the speed of an event of
\* another type never contributes; the returned overspeed contribution is
\* -min(0.5 * max_overspeed_kmh, 20).
C19_MaxOverspeed ==
    Reported =>
        /\ AggregateEvents(TheEvents).max_overspeed_kmh = ExpectedMax
        /\ TheScore.breakdown.overspeed
             = PyRound1(RNeg(RMin(RMul(Rat(1, 2), ExpectedMax), FromInt(20))))
        /\ CountOf("overspeed") = 0 => TheScore.breakdown.overspeed = FromInt(0)

\* one overspeed event at 25 m/s was reported: an excess of 40 km/h and a
\* contribution of -20
C19_Witness ==
    /\ Reported
    /\ TheEvents = << [event_type |-> Some("overspeed"), speed_m_s |-> Some(25)] >>
    /\ AggregateEvents(TheEvents).max_overspeed_kmh = FromInt(40)
    /\ TheScore.breakdown.overspeed = FromInt(-20)

\* the template of the issue naming the count of a known type
TemplateOf(type) ==
    CASE type = "hard_brake" -> "Hard braking: {count} times"
      [] type = "harsh_accel" -> "Harsh acceleration: {count} times"
      [] type = "overspeed" -> "Over speed limit: {count} times"
      [] type = "unsafe_curve" -> "Unsafe cornering: {count} times"

MaxSpeedTemplate == "Max speed exceeded limit by {max_overspeed_kmh:.0f} km/h"

\* how many entries of issues carry the template
EntriesWith(template) ==
    Cardinality({i \in 1..Len(TheScore.issues) : TheScore.issues[i][1] = template})

\* C18: issues holds exactly one count-naming entry for each of the four
\* known types that occurs in events, carrying its exact count, no entry for
\* a type that does not occur or is unrecognized, and the "Max speed
\* exceeded limit" entry iff max_overspeed_kmh > 10.
C18_IssuesPerKnownType ==
    Reported =>
        LET issues == TheScore.issues
        IN  /\ \A type \in KnownTypes :
                 IF CountOf(type) > 0
                 THEN /\ EntriesWith(TemplateOf(type)) = 1
                      /\ InSeq(<<TemplateOf(type), CountOf(type)>>, issues)
                 ELSE EntriesWith(TemplateOf(type)) = 0
            /\ \A i \in 1..Len(issues) :
                 issues[i][1] \in CountTemplates \cup {MaxSpeedTemplate}
            /\ EntriesWith(MaxSpeedTemplate) = (IF ExpectedMaxTenths > 100 THEN 1 ELSE 0)
            /\ Len(issues) = Cardinality({type \in KnownTypes : CountOf(type) > 0})
                               + EntriesWith(MaxSpeedTemplate)

\* two overspeed events, the faster at 17 m/s (11.2 km/h over), and a
\* lane_departure event were reported: one count entry and the max-speed entry
C18_Witness ==
    /\ Reported
    /\ CountOf("overspeed") = 2
    /\ ExpectedMaxTenths = 112
    /\ UnrecognizedEvents # {}
    /\ TheScore.issues = << <<"Over speed limit: {count} times", 2>>,
                            <<MaxSpeedTemplate, 11>> >>

----------------------------------------------------------------------------
(* Invocations running at the same time                                     *)

\* C15: score_trip invocations running concurrently on the scorer returned
\* by get_scorer, in any interleaving, concurrent first calls to get_scorer
\* included, each return exactly the result the same call returns when run
\* alone, and each runs on a scorer instance.
C15_ConcurrentCallsIndependent ==
    \A r \in Calls :
        calls[r].pc = "done" =>
            /\ calls[r].scorer # None
            /\ calls[r].result =
                 score_trip(calls[r].input[1].trip_data, calls[r].input[1].events,
                            calls[r].input[1].sign_detections).result

\* two invocations on different trips both went through get_scorer's
\* creation branch, overlapped, and returned; the first one's report names
\* its own hard brake and overspeed
C15_Witness ==
    /\ calls[1].pc = "done" /\ calls[2].pc = "done"
    /\ calls[1].overlapped /\ calls[2].overlapped
    /\ calls[1].input # calls[2].input
    /\ Len(calls[1].input[1].events) = 2 /\ Len(calls[2].input[1].events) = 2
    /\ Len(calls[1].result[1].issues) = 3

----------------------------------------------------------------------------
(* The breakdown returned next to the score                                 *)

\* v has at most one decimal place and lies within 0.05 of x
IsRound1Of(v, x) ==
    LET twenty == RMul(FromInt(20), RSub(v, x))
    IN  /\ RMul(FromInt(10), v)[2] = 1
        /\ RLeq(twenty, FromInt(1))
        /\ RLeq(FromInt(-1), twenty)

BreakdownKeys == {"base", "events", "overspeed", "sign_compliance"}

\* the score the returned breakdown would give: its four values summed,
\* clamped into [0, 100] and rounded
ScoreOfReturnedBreakdown == PyRound(FinalScore(TheScore.breakdown))

\* C11 as stated: breakdown has exactly the keys base, events, overspeed and
\* sign_compliance with base = 100, and score equals the sum of the four
\* returned values (each rounded to 1 decimal place) clamped into [0, 100]
\* and rounded to the nearest integer.
C11_ScoreFromReturnedBreakdown ==
    Reported =>
        /\ DOMAIN TheScore.breakdown = BreakdownKeys
        /\ TheScore.breakdown.base = FromInt(100)
        /\ TheScore.score = ScoreOfReturnedBreakdown

\* C11 amended: breakdown has exactly the four keys with base = 100; each
\* returned value is its contribution rounded to 1 decimal place; score is
\* the sum of the contributions before that rounding, clamped into [0, 100]
\* and rounded, and so lies within 1 of the score the returned values give.
C11_ScoreFromUnroundedBreakdown ==
    Reported =>
        LET agg == AggregateEvents(TheEvents)
            ded == DeductEvents(agg.event_counts, DistanceKm(TheTripData))
            det == DetectLimits(TheDetections)
            returned == TheScore.breakdown
        IN  /\ DOMAIN returned = BreakdownKeys
            /\ returned.base = FromInt(100)
            /\ IsRound1Of(returned.events, EventsContribution(ded.event_deduction))
            /\ IsRound1Of(returned.overspeed, OverspeedContribution(agg.max_overspeed_kmh))
            /\ returned.sign_compliance = SignComplianceBonus(det.detected_limits)
            /\ IsRoundOf(TheScore.score, TheFinal)
            /\ Abs(TheScore.score - ScoreOfReturnedBreakdown) <= 1

\* one hard brake on 26.1 km was reported: the deduction 11.494 is returned
\* as -11.5 and the score is 89, while 100 - 11.5 = 88.5 rounds to 88
C11_Witness ==
    /\ Reported
    /\ TheMetres = 26100
    /\ TheEvents = << [event_type |-> Some("hard_brake"), speed_m_s |-> None] >>
    /\ TheDetections = <<>>
    /\ TheScore.breakdown.events = Rat(-23, 2)
    /\ TheScore.score = 89
    /\ ScoreOfReturnedBreakdown = 88

----------------------------------------------------------------------------
(* The order of the events                                                  *)

\* every reordering of a list
PermutationsOf(s) ==
    LET n == Len(s)
    IN  { [i \in 1..n |-> s[p[i]]] :
            p \in { f \in [1..n -> 1..n] : \A i, j \in 1..n : f[i] = f[j] => i = j } }

\* C14: whatever the order of the events list, score_trip returns the same
\* score, risk_level, grade, breakdown and recommendations for the same trip
\* summary and detections
C14_EventOrderIrrelevant ==
    Reported =>
        \A reordered \in PermutationsOf(TheEvents) :
            LET other == score_trip_float(TheTripData, reordered, TheDetections).result[1]
            IN  /\ other.score = TheScore.score
                /\ other.risk_level = TheScore.risk_level
                /\ other.grade = TheScore.grade
                /\ other.breakdown = TheScore.breakdown
                /\ other.recommendations = TheScore.recommendations

----------------------------------------------------------------------------
(* The overspeed rule                                                       *)

\* C21: the overspeed rule emits a message iff the overspeed count > 0 or
\* max_overspeed_kmh > 5; the message is the "dangerous" one iff
\* max_overspeed_kmh > 20 and the "watch your speed" one otherwise, which
\* includes overspeed events whose speed is null or at most 50 km/h.
C21_OverspeedRule ==
    Reported =>
        LET recs == TheScore.recommendations
            fires == CountOf("overspeed") > 0 \/ ExpectedMaxTenths > 50
        IN  /\ (InSeq(MSG_DANGEROUS_SPEED, recs) \/ InSeq(MSG_WATCH_SPEED, recs)) <=> fires
            /\ InSeq(MSG_DANGEROUS_SPEED, recs) <=> (fires /\ ExpectedMaxTenths > 200)
            /\ InSeq(MSG_WATCH_SPEED, recs) <=> (fires /\ ~(ExpectedMaxTenths > 200))

\* overspeed events with no speed and at 10 m/s (36 km/h) were reported with
\* the milder message, after the hard-brake message of the same trip
C21_Witness ==
    /\ Reported
    /\ TheEvents = << [event_type |-> Some("overspeed"),  speed_m_s |-> None],
                      [event_type |-> Some("hard_brake"), speed_m_s |-> Some(30)],
                      [event_type |-> Some("overspeed"),  speed_m_s |-> Some(10)] >>
    /\ ExpectedMaxTenths = 0
    /\ InSeq(MSG_WATCH_SPEED, TheScore.recommendations)
    /\ ~InSeq(MSG_DANGEROUS_SPEED, TheScore.recommendations)

----------------------------------------------------------------------------
(* The lowest score                                                         *)

\* the returned breakdown summed, before any clamp
BreakdownSum ==
    RAdd(RAdd(RAdd(TheScore.breakdown.base, TheScore.breakdown.events),
              TheScore.breakdown.overspeed),
         TheScore.breakdown.sign_compliance)

\* C22: the returned score is never below 40: the two deductions are capped
\* at 40 and 20 and the bonus is not negative, so the sum never reaches the
\* lower clamp at 0 and the scores 0..39 are not returned.
C22_ScoreAtLeastForty ==
    Reported =>
        /\ TheScore.score >= 40
        /\ RLeq(FromInt(0), TheScore.breakdown.sign_compliance)
        /\ RLeq(FromInt(40), BreakdownSum)
        /\ RLeq(FromInt(40), TheFinal)

\* a trip of at most 1 km with an overspeed event at 30 m/s and no detection
\* was reported: both caps bind and the score is exactly 40
C22_Witness ==
    /\ Reported
    /\ TheDetections = <<>>
    /\ TheScore.breakdown.events = FromInt(-40)
    /\ TheScore.breakdown.overspeed = FromInt(-20)
    /\ TheScore.score = 40

----------------------------------------------------------------------------
(* Risk level against grade                                                 *)

\* C23: risk_level and grade of a result are mutually consistent: low
\* exactly with grade A or B, medium exactly with C or D, high exactly with F
C23_RiskGradeConsistent ==
    Reported =>
        /\ TheScore.risk_level \in {"low", "medium", "high"}
        /\ TheScore.grade \in {"A", "B", "C", "D", "F"}
        /\ TheScore.risk_level = "low" <=> TheScore.grade \in {"A", "B"}
        /\ TheScore.risk_level = "medium" <=> TheScore.grade \in {"C", "D"}
        /\ TheScore.risk_level = "high" <=> TheScore.grade = "F"

\* C23 witness: a final value between 70 and 80, reported medium with grade C
C23_Witness ==
    /\ Reported
    /\ RLeq(FromInt(70), TheFinal)
    /\ RLess(TheFinal, FromInt(80))
    /\ TheScore.risk_level = "medium"
    /\ TheScore.grade = "C"

----------------------------------------------------------------------------
(* One more event, one more detection                                       *)

\* the events that may be appended: every deducted type, an unrecognized
\* type and no type at all, each without a speed, at rest, at 61.2 km/h and
\* at 108 km/h
AppendedEvents ==
    [event_type : {None, Some("hard_brake"), Some("harsh_accel"), Some("overspeed"),
                   Some("unsafe_curve"), Some("lane_departure")},
     speed_m_s : {None, Some(0), Some(17), Some(30)}]

\* the detections with one more at position i + 1
WithDetectionAt(detections, i, detection) ==
    SubSeq(detections, 1, i) \o <<detection>> \o SubSeq(detections, i + 1, Len(detections))

\* tiers, the better the higher
RiskTier(risk_level) ==
    CASE risk_level = "low" -> 3 [] risk_level = "medium" -> 2 [] risk_level = "high" -> 1

GradeTier(grade) ==
    CASE grade = "A" -> 5 [] grade = "B" -> 4 [] grade = "C" -> 3
      [] grade = "D" -> 2 [] grade = "F" -> 1

\* C24: with the trip summary and the detections fixed, one more event of
\* any type and speed appended never raises the score and never moves
\* risk_level or grade to a better tier; with the events fixed, one more
\* detection, wherever it is added, never lowers the score
C24_EventsLowerDetectionsRaise ==
    Reported =>
        /\ \A event \in AppendedEvents :
             LET after == ScoreOf(TheTripData, Append(TheEvents, event), TheDetections)
             IN  /\ after.score <= TheScore.score
                 /\ RiskTier(after.risk_level) <= RiskTier(TheScore.risk_level)
                 /\ GradeTier(after.grade) <= GradeTier(TheScore.grade)
        /\ \A detection \in DetectionPool : \A i \in 0..Len(TheDetections) :
             ScoreOf(TheTripData, TheEvents, WithDetectionAt(TheDetections, i, detection)).score
                >= TheScore.score

\* C24 witness: a report over events and detections where one more event
\* lowers the score and both tiers, an unrecognized event changes nothing,
\* and one more detection raises the score
C24_Witness ==
    /\ Reported
    /\ TheEvents # <<>>
    /\ TheDetections # <<>>
    /\ \E event \in AppendedEvents :
         LET after == ScoreOf(TheTripData, Append(TheEvents, event), TheDetections)
         IN  /\ after.score < TheScore.score
             /\ RiskTier(after.risk_level) < RiskTier(TheScore.risk_level)
             /\ GradeTier(after.grade) < GradeTier(TheScore.grade)
    /\ ScoreOf(TheTripData,
               Append(TheEvents, [event_type |-> Some("lane_departure"), speed_m_s |-> Some(30)]),
               TheDetections) = TheScore
    /\ \E detection \in DetectionPool :
         ScoreOf(TheTripData, TheEvents, Append(TheDetections, detection)).score
            > TheScore.score

----------------------------------------------------------------------------
(* The overspeed and unsafe-curve messages under the cap of three           *)

\* C25: max_overspeed_kmh > 0 only with an overspeed event counted, so an
\* overspeed message is in the returned list exactly when events holds an
\* overspeed event; at most two messages precede it, so the cap of three
\* never removes it; with an unsafe_curve event counted, the unsafe-curve
\* message is missing exactly when the hard-brake, harsh-accel and overspeed
\* rules all fired
C25_OverspeedKeptCurveDropped ==
    Reported =>
        LET counted == AggregateEvents(TheEvents)
            recs == TheScore.recommendations
            hard_brake_fired == RateAbove(CountOf("hard_brake"), 2)
            harsh_accel_fired == RateAbove(CountOf("harsh_accel"), 3)
            overspeed_fired == CountOf("overspeed") > 0 \/ ExpectedMaxTenths > 50
        IN  /\ RLess(FromInt(0), counted.max_overspeed_kmh) => CountOf("overspeed") > 0
            /\ (InSeq(MSG_DANGEROUS_SPEED, recs) \/ InSeq(MSG_WATCH_SPEED, recs))
                 <=> CountOf("overspeed") > 0
            /\ \A i \in 1..Len(TheGenerated) :
                 TheGenerated[i] \in {MSG_DANGEROUS_SPEED, MSG_WATCH_SPEED} => i <= 3
            /\ CountOf("unsafe_curve") > 0 =>
                 (~InSeq(MSG_CURVES, recs)
                    <=> (hard_brake_fired /\ harsh_accel_fired /\ overspeed_fired))

\* C25 witness: a report over one event of each deducted type on 10 km, the
\* overspeed event at 108 km/h: all four rules fire, the overspeed message
\* is returned third and the unsafe-curve message is dropped
C25_Witness ==
    /\ Reported
    /\ CountOf("hard_brake") = 1
    /\ CountOf("harsh_accel") = 1
    /\ CountOf("overspeed") = 1
    /\ CountOf("unsafe_curve") = 1
    /\ RLess(FromInt(0), AggregateEvents(TheEvents).max_overspeed_kmh)
    /\ Len(TheGenerated) = 4
    /\ TheScore.recommendations
         = <<MSG_FOLLOWING_DISTANCE, MSG_SMOOTH_ACCEL, MSG_DANGEROUS_SPEED>>

====
